---- MODULE Spec2Model ----
(***************************************************************************)
(* Model of the agent execution engine of ai-agents-from-scratch (Go):     *)
(* the ReAct reasoning loop (pkg/agents/react.go), the tool registry and   *)
(* executor, the base runnable with its observers, Batch, Stream and Pipe, *)
(* and the sequence and parallel composites (pkg/core).                    *)
(*                                                                         *)
(* Text is modelled as a sequence of tokens.  A token is an indivisible    *)
(* piece of a Go string; the markers of the prompt protocol ("Action:",    *)
(* "Final Answer:", ...), the newline and the space are tokens of their    *)
(* own, and no marker can arise from the concatenation of other tokens.    *)
(* strings.Contains / Index / HasPrefix / Split / TrimSpace are computed   *)
(* on these sequences the way the Go functions compute them on bytes.      *)
(***************************************************************************)
EXTENDS Integers, Sequences, FiniteSets, TLC

\* ------------------------------------------------------------------ bounds

\* Largest iteration budget (maxIter) an agent is constructed with.
MaxIter == 3

\* Largest number of inputs handed to one Batch call.
MaxBatch == 3

\* most tokens a streaming producer emits (more than its channel holds)
MaxTokens == 12

\* most branches of a parallel composite
MaxBranches == 3

\* most observers in one configuration
MaxObservers == 3

\* most Register calls on one registry
MaxRegister == 3

\* most Run calls on one agent
MaxRuns == 2

\* most AddMessage calls on one chat history
MaxAdds == 3

\* largest capacity (maxSize) a chat history is constructed with
MaxSize == 2

\* latest reading of the millisecond clock
MaxClock == 2

\* capacity of the channel of BaseRunnable.Stream
DefaultStreamCap == 1

\* capacity of the channel of LlamaCppLLM.Stream and of the tutorial
\* character streamer
TokenStreamCap == 10

\* ------------------------------------------------------- text primitives

NL == "\n"
SP == " "

ActionMarker == "Action:"
ActionInputMarker == "Action Input:"
FinalAnswerMarker == "Final Answer:"
ThoughtMarker == "Thought:"
ObservationMarker == "Observation:"

\* unicode.IsSpace on the tokens of the model
IsSpace(t) == t \in {SP, NL, "\t"}

\* strings.Contains(s, marker)
Contains(s, marker) == \E k \in 1..Len(s) : s[k] = marker

\* strings.Index(s, marker): position of the first occurrence, 0 when absent
\* (Go returns -1)
Index(s, marker) ==
    IF Contains(s, marker)
    THEN CHOOSE k \in 1..Len(s) :
            /\ s[k] = marker
            /\ \A j \in 1..(k - 1) : s[j] # marker
    ELSE 0

\* strings.HasPrefix(line, marker)
HasPrefix(line, marker) == Len(line) > 0 /\ line[1] = marker

\* strings.TrimPrefix(line, marker)
TrimPrefix(line, marker) == IF HasPrefix(line, marker) THEN Tail(line) ELSE line

RECURSIVE TrimLeft(_)
TrimLeft(s) ==
    IF s # <<>> /\ IsSpace(Head(s)) THEN TrimLeft(Tail(s)) ELSE s

RECURSIVE TrimRight(_)
TrimRight(s) ==
    IF s # <<>> /\ IsSpace(s[Len(s)])
    THEN TrimRight(SubSeq(s, 1, Len(s) - 1))
    ELSE s

\* strings.TrimSpace(s)
TrimSpace(s) == TrimRight(TrimLeft(s))

\* strings.Split(s, "\n"): the sequence of lines, always at least one
RECURSIVE Split(_)
Split(s) ==
    LET k == Index(s, NL)
    IN  IF k = 0
        THEN << s >>
        ELSE << SubSeq(s, 1, k - 1) >> \o Split(SubSeq(s, k + 1, Len(s)))

\* strings.Join(names, ", ")
RECURSIVE Join(_)
Join(names) ==
    IF names = <<>> THEN <<>>
    ELSE IF Len(names) = 1 THEN names[1]
    ELSE names[1] \o << ", " >> \o Join(Tail(names))

\* ------------------------------------------------------------ Go errors

\* A Go error value: nil, or an error carrying its message text.
NoError == [isErr |-> FALSE, msg |-> <<>>]
Errorf(text) == [isErr |-> TRUE, msg |-> text]

\* ------------------------------------------------ JSON argument payloads

\* The argument payloads that are one JSON document, with the value
\* encoding/json decodes them to.  An object decodes to a map from keys to
\* typed values; a document that is not an object cannot be stored in a
\* map[string]interface{}.
EmptyArgs == [k \in {} |-> [type |-> "string", val |-> ""]]

JSONObjects ==
    [d \in {"{}", "{\"expression\":\"2+2\"}", "{\"expression\":5}"} |->
        CASE d = "{}" -> EmptyArgs
          [] d = "{\"expression\":\"2+2\"}" ->
                [k \in {"expression"} |-> [type |-> "string", val |-> "2+2"]]
          [] d = "{\"expression\":5}" ->
                [k \in {"expression"} |-> [type |-> "number", val |-> "5"]]]

\* json.Unmarshal([]byte(argsJSON), &args) for args map[string]interface{}:
\* succeeds exactly when the payload is a single JSON object (the payload
\* reaches the decoder already trimmed); anything else, including trailing
\* data after a document and documents that are not objects, is an error.
JSONUnmarshal(argsJSON) ==
    IF Len(argsJSON) = 1 /\ argsJSON[1] \in DOMAIN JSONObjects
    THEN [err |-> NoError, args |-> JSONObjects[argsJSON[1]]]
    ELSE [err |-> Errorf(<< "invalid JSON object" >>), args |-> EmptyArgs]

\* ------------------------------------------------------------------ tools

NewBaseTool(name, description) ==
    [kind |-> "BaseTool", name |-> name, description |-> description]

NewGetCurrentTimeTool ==
    [kind |-> "GetCurrentTimeTool", name |-> << "getCurrentTime" >>,
     description |-> << "Get the current time" >>]

NewCalculatorTool ==
    [kind |-> "CalculatorTool", name |-> << "calculator" >>,
     description |-> << "Perform basic arithmetic calculations." >>]

\* tool.Execute(ctx, args) of the three tool types of pkg/tools
Execute(tool, args) ==
    CASE tool.kind = "GetCurrentTimeTool" ->
            [result |-> << "14:30" >>, err |-> NoError]
      [] tool.kind = "CalculatorTool" ->
            IF "expression" \in DOMAIN args /\ args["expression"].type = "string"
            THEN [result |-> << "Result of '", args["expression"].val, "' is 42" >>,
                  err |-> NoError]
            ELSE [result |-> <<>>,
                  err |-> Errorf(<< "expression must be a string" >>)]
      [] OTHER ->
            [result |-> <<>>,
             err |-> Errorf(<< "execute not implemented for " >> \o tool.name)]

\* --------------------------------------------------------- tool registry

\* A registry is the map r.tools: a function from tool names to tools.
NewToolRegistry == [n \in {} |-> NewGetCurrentTimeTool]

\* Register keeping the tool already registered under the name
RegisterKeepsFirst(reg, tool) ==
    [n \in (DOMAIN reg) \cup {tool.name} |->
        IF n \in DOMAIN reg THEN reg[n] ELSE tool]

\* Register(tool): r.tools[tool.Name()] = tool
Register(reg, tool) ==
    [n \in (DOMAIN reg) \cup {tool.name} |->
        IF n = tool.name THEN tool ELSE reg[n]]

\* Get(name) -> (tool, ok)
Get(reg, name) ==
    IF name \in DOMAIN reg
    THEN [tool |-> reg[name], ok |-> TRUE]
    ELSE [tool |-> NewBaseTool(<<>>, <<>>), ok |-> FALSE]

\* All orders of a finite set as sequences
Orders(S) ==
    { f \in [1..Cardinality(S) -> S] :
        \A a, b \in 1..Cardinality(S) : a # b => f[a] # f[b] }

\* GetAll(): the registered tools in the (unspecified) order in which Go
\* iterates over the map; the set of all lists one call may return.
GetAll(reg) ==
    { [k \in 1..Len(o) |-> reg[o[k]]] : o \in Orders(DOMAIN reg) }

\* ExecuteTool decoding the payload before it looks the tool up
ExecuteToolDecodesFirst(reg, name, argsJSON) ==
    LET got == Get(reg, name)
        dec == JSONUnmarshal(argsJSON)
    IN  IF argsJSON # <<>> /\ dec.err.isErr
        THEN [result |-> <<>>, executed |-> FALSE,
              err |-> Errorf(<< "failed to parse arguments: " >> \o dec.err.msg)]
        ELSE IF ~got.ok
        THEN [result |-> <<>>, executed |-> FALSE,
              err |-> Errorf(<< "tool not found: " >> \o name)]
        ELSE LET args == IF argsJSON # <<>> THEN dec.args ELSE EmptyArgs
                 r == Execute(got.tool, args)
             IN  [result |-> r.result, executed |-> TRUE, err |-> r.err]

\* ExecuteTool running the tool on no arguments when the payload does not
\* decode
ExecuteToolIgnoresDecodeError(reg, name, argsJSON) ==
    LET got == Get(reg, name)
        dec == JSONUnmarshal(argsJSON)
    IN  IF ~got.ok
        THEN [result |-> <<>>, executed |-> FALSE,
              err |-> Errorf(<< "tool not found: " >> \o name)]
        ELSE LET r == Execute(got.tool, dec.args)
             IN  [result |-> r.result, executed |-> TRUE, err |-> r.err]

\* ExecuteTool(ctx, name, argsJSON) -> (result, err); executed tells whether
\* the tool function was called.
ExecuteTool(reg, name, argsJSON) ==
    LET got == Get(reg, name)
        dec == JSONUnmarshal(argsJSON)
    IN  IF ~got.ok
        THEN [result |-> <<>>, executed |-> FALSE,
              err |-> Errorf(<< "tool not found: " >> \o name)]
        ELSE IF argsJSON # <<>> /\ dec.err.isErr
        THEN [result |-> <<>>, executed |-> FALSE,
              err |-> Errorf(<< "failed to parse arguments: " >> \o dec.err.msg)]
        ELSE LET args == IF argsJSON # <<>> THEN dec.args ELSE EmptyArgs
                 r == Execute(got.tool, args)
             IN  [result |-> r.result, executed |-> TRUE, err |-> r.err]

\* ------------------------------------------------------------ ReAct agent

\* parseAction: the action name and the action input of a response.  The
\* loop visits every line and assigns on every matching line.
RECURSIVE parseLines(_, _, _)
parseLines(lines, action, actionInput) ==
    IF lines = <<>>
    THEN [action |-> action, actionInput |-> actionInput]
    ELSE LET line == Head(lines)
         IN  IF HasPrefix(line, ActionMarker)
             THEN parseLines(Tail(lines),
                             TrimSpace(TrimPrefix(line, ActionMarker)),
                             actionInput)
             ELSE IF HasPrefix(line, ActionInputMarker)
             THEN parseLines(Tail(lines), action,
                             TrimSpace(TrimPrefix(line, ActionInputMarker)))
             ELSE parseLines(Tail(lines), action, actionInput)

parseAction(response) == parseLines(Split(response), <<>>, <<>>)

\* extractFinalAnswer cutting at the last occurrence of the marker
extractFinalAnswerLast(response) ==
    LET idx == IF Contains(response, FinalAnswerMarker)
               THEN CHOOSE k \in 1..Len(response) :
                       /\ response[k] = FinalAnswerMarker
                       /\ \A j \in (k + 1)..Len(response) :
                             response[j] # FinalAnswerMarker
               ELSE 0
    IN  IF idx # 0
        THEN TrimSpace(SubSeq(response, idx + 1, Len(response)))
        ELSE response

\* extractFinalAnswer
extractFinalAnswer(response) ==
    LET idx == Index(response, FinalAnswerMarker)
    IN  IF idx # 0
        THEN TrimSpace(SubSeq(response, idx + 1, Len(response)))
        ELSE response

\* getToolNames, for one list returned by GetAll
getToolNames(all) == [k \in 1..Len(all) |-> all[k].name]

\* the "- name: description\n" lines of buildSystemPrompt
RECURSIVE toolsDesc(_)
toolsDesc(all) ==
    IF all = <<>> THEN <<>>
    ELSE << "- " >> \o Head(all).name \o << ": " >> \o Head(all).description
         \o << NL >> \o toolsDesc(Tail(all))

\* buildSystemPrompt, for the two lists its two GetAll calls return
buildSystemPrompt(all1, all2) ==
    << "You are a helpful assistant that can use tools to answer questions.",
       NL, NL, "Available tools:", NL >>
    \o toolsDesc(all1)
    \o << NL, NL, "Use the following format: ... should be one of [" >>
    \o Join(getToolNames(all2))
    \o << "] ...", NL, NL, "Begin!" >>

\* ------------------------------------------------- inputs of the agent

\* The registries an agent is constructed with, each built by Register calls
\* on a new registry.
Registries ==
    { NewToolRegistry,
      Register(NewToolRegistry, NewCalculatorTool),
      Register(Register(NewToolRegistry, NewCalculatorTool),
               NewGetCurrentTimeTool) }

Queries == { << "What is 2+2?" >> }

\* The texts the language model may answer with.
Responses ==
    { \* plain reasoning, no marker
      << ThoughtMarker, SP, "hmm", NL, "more" >>,
      \* a well-formed tool call (Scenario A)
      << ThoughtMarker, SP, "add", NL, ActionMarker, SP, "calculator", NL,
         ActionInputMarker, SP, "{\"expression\":\"2+2\"}" >>,
      \* a tool call with an empty argument payload
      << ActionMarker, SP, "getCurrentTime", SP, NL, ActionInputMarker, SP >>,
      \* an unknown tool (Scenario C), with an undecodable payload
      << ActionMarker, SP, "nonexistent", NL, ActionInputMarker, SP, "2+2" >>,
      \* an undecodable payload for a registered tool
      << ActionMarker, SP, "calculator", NL, ActionInputMarker, SP, "2+2" >>,
      \* decodable payload the tool rejects
      << ActionMarker, SP, "calculator", NL, ActionInputMarker, SP,
         "{\"expression\":5}" >>,
      \* action marker and final-answer marker together, both orders
      << ActionMarker, SP, "calculator", NL, ActionInputMarker, SP,
         "{\"expression\":\"2+2\"}", NL, FinalAnswerMarker, SP, "4" >>,
      << FinalAnswerMarker, SP, "4", NL, ActionMarker, SP, "getCurrentTime" >>,
      \* duplicate action and argument lines
      << ActionMarker, SP, "calculator", NL, ActionInputMarker, SP,
         "{\"expression\":\"2+2\"}", NL, ActionMarker, SP, "getCurrentTime", NL,
         ActionInputMarker, SP, "{}" >>,
      \* an Action: line with no content
      << ThoughtMarker, SP, "act", NL, ActionMarker, SP, NL, ActionInputMarker,
         SP, "{}" >>,
      \* the action marker not at the start of a line
      << ThoughtMarker, SP, "use", SP, ActionMarker, SP, "calculator" >>,
      \* final answers
      << ThoughtMarker, SP, "done", NL, FinalAnswerMarker, SP, "4", NL >>,
      << FinalAnswerMarker, NL, "4", SP, "or", NL, FinalAnswerMarker, SP, "5" >>,
      << FinalAnswerMarker >> }

\* l.model.Predict: the outcomes of one generation call of the model
\* backend, a text or an error.
Predict ==
    { [text |-> r, err |-> NoError] : r \in Responses }
    \cup { [text |-> <<>>, err |-> Errorf(<< "llama: predict failed" >>)] }

\* LlamaCppLLM.Invoke on a string prompt: the result of Predict, an error
\* wrapped as "prediction failed: ...".
LlamaInvoke ==
    { IF o.err.isErr
      THEN [text |-> <<>>, err |-> Errorf(<< "prediction failed: " >> \o o.err.msg)]
      ELSE o : o \in Predict }

\* ----------------------------------------------------------------- state

VARIABLES
    tools,        \* a.tools: the registry of the agent
    maxIter,      \* a.maxIter
    scratchpad,   \* a.scratchpad
    pc,           \* position of Run: idle, loop, acting, observing,
                  \* done, failed, exhausted
    i,            \* loop counter of Run
    prompt,       \* local prompt of Run
    responseStr,  \* local responseStr of the current iteration
    action,       \* parsed action name
    actionInput,  \* parsed action input
    observation,  \* observation of the current Acting step
    answer,       \* returned answer
    runErr,       \* returned error
    llmLog,       \* history: every model invocation, its prompt and outcome
    toolLog       \* history: every ExecuteTool call and its outcome

agentVars == << tools, maxIter, scratchpad, pc, i, prompt, responseStr, action,
                actionInput, observation, answer, runErr, llmLog, toolLog >>

VARIABLES
    bPc,        \* position of Batch: idle, waiting, returned
    inputs,     \* argument of Batch
    config,     \* argument of Batch
    results,    \* local results slice
    errors,     \* local errors slice
    done,       \* number of values buffered in the done channel
    received,   \* number of values Batch has received from done
    taskPc,     \* position of each launched goroutine: ready, invoked, finished
    order,      \* history: task indexes in the order their Invoke completed
    batchRet,   \* what Batch returned
    unit        \* the unit Batch is called on

batchVars == << bPc, inputs, config, results, errors, done, received, taskPc,
                order, batchRet, unit >>

\* One composition exercise: three units, an input, and what each way of
\* composing and running them gave.
VARIABLES
    stepA, stepB, stepC,   \* the units composed
    seqInput,              \* the input handed to the composite
    seqConfig,             \* the configuration handed to the composite
    seqRet                 \* per composition: what the call returned and did

seqVars == << stepA, stepB, stepC, seqInput, seqConfig, seqRet >>

\* One Stream call: the producer goroutine, its channel, the execution
\* context and the consumer.
VARIABLES
    sUnit,       \* the unit Stream is called on
    sInput,      \* the input of the call
    sConfig,     \* the configuration of the call
    sCtx,        \* the context: background (never done), live, cancelled
    sPc,         \* producer: idle, refused, invoke, produce, sendErr, closed
    sProducer,   \* the receiver and input the producer goroutine runs on
    sPending,    \* the items the producer has still to emit
    sOut,        \* the items buffered in the channel
    sClosed,     \* the channel is closed
    sConsumer,   \* consumer: reading, abandoned, drained
    sDelivered,  \* the items the consumer received
    sCalls,      \* the Invoke calls the producer made
    sErr         \* the error Stream returned

streamVars == << sUnit, sInput, sConfig, sCtx, sPc, sProducer, sPending, sOut,
                 sClosed, sConsumer, sDelivered, sCalls, sErr >>

\* One Invoke of a RunnableParallel and its branch goroutines.
VARIABLES
    pRunnables,  \* the name -> unit mapping
    pInput,      \* the caller's input
    pConfig,     \* the caller's configuration
    pPc,         \* Invoke: idle, collecting, returned
    pTask,       \* per branch goroutine: ready, invoked, sent
    pOutcome,    \* per branch goroutine: output and err of its r.Invoke
    pChan,       \* the results channel
    pCount,      \* i, the number of results collected
    pOutput,     \* the output map under construction
    pRet,        \* what Invoke returned
    pCalls       \* history: the Invoke calls of the branches (name, input)

parVars == << pRunnables, pInput, pConfig, pPc, pTask, pOutcome, pChan, pCount,
              pOutput, pRet, pCalls >>

\* One call on a CallbackManager or one Invoke with observers.
VARIABLES
    oUnit,       \* the unit the call is made on or for
    oInput,      \* the caller's input
    oConfig,     \* the caller's configuration, with its observers
    oOp,         \* the call made: none, HandleStart, HandleEnd, HandleError, Invoke
    oEvents,     \* history: the observer methods and the logic called, in order
    oRet         \* what the call returned

obsVars == << oUnit, oInput, oConfig, oOp, oEvents, oRet >>

\* One tool registry and the calls made on it.
VARIABLES
    registry,    \* r.tools: the map from names to tools
    registered,  \* history: the tools passed to Register, in order
    regOp,       \* the last call: none, Register, Get, GetAll, ExecuteTool
    regArg,      \* the name that call was given
    regRet       \* what that call returned

regVars == << registry, registered, regOp, regArg, regRet >>

\* The Run calls made on one agent.
VARIABLES
    runs,        \* the number of Run calls so far
    mark         \* history: the length of the scratchpad when the last Run began

sessVars == << runs, mark >>

\* One chat history manager, the clock and the file it saves to.
VARIABLES
    history,     \* the manager: messages, systemMsg, maxSize
    added,       \* history: the messages handed to AddMessage since the last Clear
    clock,       \* time.Now().UnixMilli()
    file,        \* the saved file: the list of serialized messages
    hOp          \* the last call: none, AddMessage, Save, Load

histVars == << history, added, clock, file, hOp >>

vars == << agentVars, batchVars, seqVars, streamVars, parVars, obsVars, regVars,
           sessVars, histVars >>

\* the variables outside one subsystem
notAgent == << batchVars, seqVars, streamVars, parVars, obsVars, regVars, sessVars,
               histVars >>
notBatch == << agentVars, seqVars, streamVars, parVars, obsVars, regVars, sessVars,
               histVars >>
notSeq == << agentVars, batchVars, streamVars, parVars, obsVars, regVars, sessVars,
             histVars >>
notStream == << agentVars, batchVars, seqVars, parVars, obsVars, regVars, sessVars,
                histVars >>
notPar == << agentVars, batchVars, seqVars, streamVars, obsVars, regVars, sessVars,
             histVars >>
notObs == << agentVars, batchVars, seqVars, streamVars, parVars, regVars, sessVars,
             histVars >>
notReg == << agentVars, batchVars, seqVars, streamVars, parVars, obsVars, sessVars,
             histVars >>
notHist == << agentVars, batchVars, seqVars, streamVars, parVars, obsVars, regVars,
             sessVars >>
notSession == << batchVars, seqVars, streamVars, parVars, obsVars, regVars, histVars >>

\* NewReActAgent(llm, toolRegistry, maxIter, verbose)
NewReActAgent(reg, mi) ==
    /\ tools = reg
    /\ maxIter = mi
    /\ scratchpad = <<>>

AgentInit ==
    /\ \E reg \in Registries, mi \in (-1)..MaxIter : NewReActAgent(reg, mi)
    /\ pc = "idle"
    /\ i = 0
    /\ prompt = <<>>
    /\ responseStr = <<>>
    /\ action = <<>>
    /\ actionInput = <<>>
    /\ observation = <<>>
    /\ answer = <<>>
    /\ runErr = NoError
    /\ llmLog = <<>>
    /\ toolLog = <<>>

\* Run, lines 33-41: build the initial prompt and enter the loop.
RunStart ==
    /\ pc = "idle"
    /\ \E query \in Queries, all1 \in GetAll(tools), all2 \in GetAll(tools) :
          prompt' = buildSystemPrompt(all1, all2)
                    \o << NL, NL, "Question: " >> \o query
                    \o << NL, NL, ThoughtMarker >>
    /\ i' = 0
    /\ pc' = "loop"
    /\ UNCHANGED << tools, maxIter, scratchpad, responseStr, action, actionInput,
                    observation, answer, runErr, llmLog, toolLog >>
    /\ UNCHANGED notAgent

\* LoopCond with an inclusive bound
LoopCondOffByOne == i <= maxIter

\* LoopCond stopping one iteration early
LoopCondShort == i < maxIter - 1

\* Run, line 43: the loop condition
LoopCond == i < maxIter

\* LLMFailed with the error of the invocation ignored
LLMFailedIgnored(out) == FALSE

\* Run, line 50: the model invocation returned an error
LLMFailed(out) == out.err.isErr

\* Branch testing the final-answer marker before the action marker
BranchFinalFirst(text) ==
    IF Contains(text, FinalAnswerMarker) THEN "final"
    ELSE IF Contains(text, ActionMarker) THEN "action"
    ELSE "continue"

\* Branch taking the action branch only for a non-empty parsed action name
BranchSkipEmptyAction(text) ==
    IF Contains(text, ActionMarker) /\ parseAction(text).action # <<>> THEN "action"
    ELSE IF Contains(text, FinalAnswerMarker) /\ ~Contains(text, ActionMarker)
    THEN "final"
    ELSE "continue"

\* Run, lines 66, 88 and 96: which branch a response takes
Branch(text) ==
    IF Contains(text, ActionMarker) THEN "action"
    ELSE IF Contains(text, FinalAnswerMarker) THEN "final"
    ELSE "continue"

\* Observation with the executor's error dropped
ObservationDropsError(r) == r.result

\* Run, lines 75-78: the observation of a tool execution, an error rendered
\* as text
Observation(r) ==
    IF r.err.isErr THEN << "Error: " >> \o r.err.msg ELSE r.result

\* WithObservation that restarts the prompt at the observation
WithObservationOnly(p, obs) ==
    << NL, ObservationMarker, SP >> \o obs \o << NL, NL, ThoughtMarker >>

\* Run, line 85: the prompt with the observation folded in
WithObservation(p, obs) ==
    p \o << NL, ObservationMarker, SP >> \o obs \o << NL, NL, ThoughtMarker >>

\* WithFragment leaving the fragment out of the prompt
WithFragmentDropped(p, text) == p \o << NL, NL >>

\* Run, line 98: the prompt with a reasoning fragment appended
WithFragment(p, text) == p \o text \o << NL, NL >>

\* Run, lines 43-72 and 88-99: one model invocation and the parse of its
\* response.  (The type assertion of line 54 cannot fail: LlamaCppLLM.Invoke
\* returns a string whenever it returns no error.)
Reason ==
    /\ pc = "loop"
    /\ LoopCond
    /\ \E out \in LlamaInvoke :
        /\ llmLog' = Append(llmLog, [prompt |-> prompt, out |-> out])
        /\ IF LLMFailed(out)
           THEN /\ runErr' = Errorf(<< "LLM invocation failed: " >> \o out.err.msg)
                /\ pc' = "failed"
                /\ UNCHANGED << scratchpad, responseStr, action, actionInput,
                                answer, prompt, i >>
           ELSE /\ responseStr' = out.text
                /\ scratchpad' = Append(scratchpad, out.text)
                /\ CASE Branch(out.text) = "action" ->
                        /\ action' = parseAction(out.text).action
                        /\ actionInput' = parseAction(out.text).actionInput
                        /\ pc' = "acting"
                        /\ UNCHANGED << answer, runErr, prompt, i >>
                     [] Branch(out.text) = "final" ->
                        /\ answer' = extractFinalAnswer(out.text)
                        /\ pc' = "done"
                        /\ UNCHANGED << action, actionInput, runErr, prompt, i >>
                     [] OTHER ->
                        /\ prompt' = WithFragment(prompt, out.text)
                        /\ i' = i + 1
                        /\ pc' = "loop"
                        /\ UNCHANGED << action, actionInput, answer, runErr >>
    /\ UNCHANGED << tools, maxIter, observation, toolLog >>
    /\ UNCHANGED notAgent

\* Run, lines 74-78: call the tool executor; an error becomes the
\* observation text.
Act ==
    /\ pc = "acting"
    /\ LET r == ExecuteTool(tools, action, actionInput)
       IN  /\ observation' = Observation(r)
           /\ toolLog' = Append(toolLog, [name |-> action, argsJSON |-> actionInput,
                                          iter |-> i, res |-> r])
    /\ pc' = "observing"
    /\ UNCHANGED << tools, maxIter, scratchpad, i, prompt, responseStr, action,
                    actionInput, answer, runErr, llmLog >>
    /\ UNCHANGED notAgent

\* Run, lines 84-86: fold the observation into the prompt and the
\* scratchpad, then the next iteration.
Observe ==
    /\ pc = "observing"
    /\ prompt' = WithObservation(prompt, observation)
    /\ scratchpad' = Append(scratchpad, observation)
    /\ i' = i + 1
    /\ pc' = "loop"
    /\ UNCHANGED << tools, maxIter, responseStr, action, actionInput,
                    observation, answer, runErr, llmLog, toolLog >>
    /\ UNCHANGED notAgent

\* Run, lines 43 and 102: the loop condition fails.
Exhaust ==
    /\ pc = "loop"
    /\ ~LoopCond
    /\ runErr' = Errorf(<< "max iterations reached without final answer" >>)
    /\ pc' = "exhausted"
    /\ UNCHANGED << tools, maxIter, scratchpad, i, prompt, responseStr, action,
                    actionInput, observation, answer, llmLog, toolLog >>
    /\ UNCHANGED notAgent

\* ------------------------------------------- observers and base runnable

\* An observer (core.Callback).  OnStart fails on the inputs of failStart;
\* OnError and OnEnd fail when failError / failEnd is set.  LoggingCallback
\* never fails.
LoggingCallback ==
    [name |-> "LoggingCallback", failStart |-> {}, failError |-> FALSE,
     failEnd |-> FALSE]

Callback(name, failStart, failError, failEnd) ==
    [name |-> name, failStart |-> failStart, failError |-> failError,
     failEnd |-> failEnd]

\* NewConfig(): the default configuration
NewConfig == [Callbacks |-> <<>>, MaxRetries |-> 3, Timeout |-> 0]

\* a nil *Config
NilConfig == [Callbacks |-> <<>>, MaxRetries |-> 0, Timeout |-> -1]

\* CallbackManager.HandleStart: the error of the first observer whose
\* OnStart fails, nil when none does
RECURSIVE HandleStart(_, _)
HandleStart(callbacks, input) ==
    IF callbacks = <<>> THEN NoError
    ELSE IF input \in Head(callbacks).failStart
    THEN Errorf(<< Head(callbacks).name, ".OnStart rejected ", input >>)
    ELSE HandleStart(Tail(callbacks), input)

\* CallbackManager.HandleEnd
RECURSIVE HandleEnd(_, _)
HandleEnd(callbacks, output) ==
    IF callbacks = <<>> THEN NoError
    ELSE IF Head(callbacks).failEnd
    THEN Errorf(<< Head(callbacks).name, ".OnEnd failed" >>)
    ELSE HandleEnd(Tail(callbacks), output)

\* CallbackManager.HandleError
RECURSIVE HandleError(_, _)
HandleError(callbacks, err) ==
    IF callbacks = <<>> THEN NoError
    ELSE IF Head(callbacks).failError
    THEN Errorf(<< Head(callbacks).name, ".OnError failed" >>)
    ELSE HandleError(Tail(callbacks), err)

\* the nil interface value
Nil == [type |-> "nil", num |-> 0, str |-> <<>>]

\* an interface{} holding an int
Num(n) == [type |-> "int", num |-> n, str |-> <<>>]

\* an interface{} holding a string
Str(s) == [type |-> "string", num |-> 0, str |-> s]

\* BaseRunnable.call: the base unit has no logic of its own
call(name, input) ==
    [output |-> Nil, err |-> Errorf(<< name, " must implement call() method" >>)]

\* BaseInvoke returning the observer's error in place of the original one
BaseInvokeDropsOriginal(name, input, conf) ==
    LET cfg == IF conf = NilConfig THEN NewConfig ELSE conf
        startErr == HandleStart(cfg.Callbacks, input)
        res == call(name, input)
        cbErr == HandleError(cfg.Callbacks, res.err)
    IN  IF startErr.isErr
        THEN [output |-> Nil, err |-> startErr]
        ELSE IF cbErr.isErr
        THEN [output |-> Nil, err |-> cbErr]
        ELSE [output |-> Nil, err |-> res.err]

\* BaseRunnable.Invoke(ctx, input, config) -> (output, err)
BaseInvoke(name, input, conf) ==
    LET cfg == IF conf = NilConfig THEN NewConfig ELSE conf
        startErr == HandleStart(cfg.Callbacks, input)
        res == call(name, input)
    IN  IF startErr.isErr
        THEN [output |-> Nil, err |-> startErr]
        ELSE IF res.err.isErr
        THEN LET cbErr == HandleError(cfg.Callbacks, res.err)
             IN  IF cbErr.isErr
                 THEN [output |-> Nil,
                       err |-> Errorf(<< "callback error: " >> \o cbErr.msg
                                      \o << ", original error: " >> \o res.err.msg)]
                 ELSE [output |-> Nil, err |-> res.err]
        ELSE LET endErr == HandleEnd(cfg.Callbacks, res.output)
             IN  IF endErr.isErr
                 THEN [output |-> Nil, err |-> endErr]
                 ELSE [output |-> res.output, err |-> NoError]

\* ------------------------------------------------------------------ units

\* A Runnable value: its concrete type (kind), the name of its embedded
\* *BaseRunnable, the prefix of a PrefixRunnable and the steps of a
\* RunnableSequence.
NewBaseRunnable(name) ==
    [kind |-> "BaseRunnable", name |-> name, prefix |-> <<>>, steps |-> <<>>]

NewDoubleRunnable ==
    [kind |-> "DoubleRunnable", name |-> "DoubleRunnable", prefix |-> <<>>,
     steps |-> <<>>]

NewTrimRunnable ==
    [kind |-> "TrimRunnable", name |-> "Trim", prefix |-> <<>>, steps |-> <<>>]

NewUppercaseRunnable ==
    [kind |-> "UppercaseRunnable", name |-> "Uppercase", prefix |-> <<>>,
     steps |-> <<>>]

NewPrefixRunnable(prefix) ==
    [kind |-> "PrefixRunnable", name |-> "Prefix", prefix |-> prefix,
     steps |-> <<>>]

NewStreamingTextRunnable ==
    [kind |-> "StreamingTextRunnable", name |-> "StreamingText", prefix |-> <<>>,
     steps |-> <<>>]

NewLlamaCppLLM ==
    [kind |-> "LlamaCppLLM", name |-> "LlamaCppLLM", prefix |-> <<>>,
     steps |-> <<>>]

NewRunnableSequence(steps) ==
    [kind |-> "RunnableSequence", name |-> "RunnableSequence", prefix |-> <<>>,
     steps |-> steps]

\* the *BaseRunnable embedded in a unit: the receiver r of the methods the
\* unit does not define itself (Go promotes them without virtual dispatch)
Embedded(u) == NewBaseRunnable(u.name)

\* DoubleRunnable.Invoke
DoubleInvoke(input) ==
    IF input.type = "int"
    THEN [output |-> Num(input.num * 2), err |-> NoError]
    ELSE [output |-> Nil,
          err |-> Errorf(<< "input must be a number, got ", input.type >>)]

\* TrimRunnable.Invoke
TrimInvoke(input) ==
    IF input.type = "string"
    THEN [output |-> Str(TrimSpace(input.str)), err |-> NoError]
    ELSE [output |-> Nil,
          err |-> Errorf(<< "input must be string, got ", input.type >>)]

\* strings.ToUpper on the letters of the model
ToUpper(s) ==
    [k \in DOMAIN s |-> CASE s[k] = "a" -> "A" [] s[k] = "b" -> "B"
                           [] OTHER -> s[k]]

\* UppercaseRunnable.Invoke
UppercaseInvoke(input) ==
    IF input.type = "string"
    THEN [output |-> Str(ToUpper(input.str)), err |-> NoError]
    ELSE [output |-> Nil,
          err |-> Errorf(<< "input must be string, got ", input.type >>)]

\* PrefixRunnable.Invoke
PrefixInvoke(prefix, input) ==
    IF input.type = "string"
    THEN [output |-> Str(prefix \o input.str), err |-> NoError]
    ELSE [output |-> Nil,
          err |-> Errorf(<< "input must be string, got ", input.type >>)]

RECURSIVE Invoke(_, _, _)
RECURSIVE SequenceInvoke(_, _, _)

\* u.Invoke(ctx, input, config) through the Runnable interface: the method
\* of the concrete type, BaseRunnable.Invoke for a type that defines none.
\* (LlamaCppLLM.Invoke is not a function of its input: see LlamaInvoke.)
Invoke(u, input, conf) ==
    CASE u.kind = "DoubleRunnable" -> DoubleInvoke(input)
      [] u.kind = "TrimRunnable" -> TrimInvoke(input)
      [] u.kind = "UppercaseRunnable" -> UppercaseInvoke(input)
      [] u.kind = "PrefixRunnable" -> PrefixInvoke(u.prefix, input)
      [] u.kind = "RunnableSequence" -> SequenceInvoke(u.steps, input, conf)
      [] u.kind \in {"BaseRunnable", "StreamingTextRunnable"} ->
            BaseInvoke(u.name, input, conf)

\* SequenceInvoke going on to the next step, on the same input, when a
\* step fails
SequenceInvokeSkipsFailed(steps, input, conf) ==
    IF steps = <<>> THEN [output |-> input, err |-> NoError]
    ELSE LET r == Invoke(Head(steps), input, conf)
         IN  SequenceInvoke(Tail(steps),
                            IF r.err.isErr THEN input ELSE r.output, conf)

\* RunnableSequence.Invoke: each step on the output of the one before, up
\* to the first error
SequenceInvoke(steps, input, conf) ==
    IF steps = <<>> THEN [output |-> input, err |-> NoError]
    ELSE LET r == Invoke(Head(steps), input, conf)
         IN  IF r.err.isErr THEN [output |-> Nil, err |-> r.err]
             ELSE SequenceInvoke(Tail(steps), r.output, conf)

RECURSIVE Calls(_, _, _)
RECURSIVE SequenceCalls(_, _, _)

\* the Invoke calls made on units that are not sequences while
\* u.Invoke(ctx, input, config) runs, in order: which unit, on what input
Calls(u, input, conf) ==
    IF u.kind = "RunnableSequence" THEN SequenceCalls(u.steps, input, conf)
    ELSE << [unit |-> u, input |-> input] >>

\* the calls of RunnableSequence.Invoke
SequenceCalls(steps, input, conf) ==
    IF steps = <<>> THEN <<>>
    ELSE LET r == Invoke(Head(steps), input, conf)
         IN  Calls(Head(steps), input, conf)
             \o (IF r.err.isErr THEN <<>>
                 ELSE SequenceCalls(Tail(steps), r.output, conf))

\* BaseRunnable.Pipe, reached through any unit that embeds the base and
\* does not define Pipe: the sequence starts with the receiver r
BasePipe(u, other) == NewRunnableSequence(<< Embedded(u), other >>)

\* SequencePipe putting the new step in front of the others
SequencePipePrepend(u, other) == NewRunnableSequence(<< other >> \o u.steps)

\* RunnableSequence.Pipe: a new sequence of the steps and other
SequencePipe(u, other) == NewRunnableSequence(Append(u.steps, other))

\* u.Pipe(other)
Pipe(u, other) ==
    IF u.kind = "RunnableSequence" THEN SequencePipe(u, other)
    ELSE BasePipe(u, other)

\* ------------------------------------------------------------------ Batch

BatchInputs == {Num(1), Num(2)}

\* the input lists of a Batch call
InputLists == UNION { [1..n -> BatchInputs] : n \in 0..MaxBatch }

\* the configurations a Batch call is made with
Configs ==
    { NilConfig,
      [NewConfig EXCEPT !.Callbacks = << LoggingCallback >>],
      [NewConfig EXCEPT !.Callbacks =
          << LoggingCallback, Callback("Guard", {Num(2)}, FALSE, FALSE) >>],
      [NewConfig EXCEPT !.Callbacks =
          << Callback("Guard", {Num(2)}, FALSE, FALSE),
             Callback("Audit", {}, TRUE, FALSE) >>],
      [NewConfig EXCEPT !.MaxRetries = 5, !.Timeout = 30],
      [NewConfig EXCEPT !.MaxRetries = 0,
                        !.Callbacks = << Callback("Guard", {Num(2)}, FALSE, FALSE) >>] }

\* the units Batch is called on: the bare base unit, the doubling unit and
\* a Pipe-built sequence (all three reach BaseRunnable.Batch)
BatchUnits ==
    { NewBaseRunnable("BaseRunnable"),
      NewDoubleRunnable,
      Pipe(NewRunnableSequence(<< NewDoubleRunnable >>), NewDoubleRunnable) }

\* name of the unit Batch is called on
UnitName == unit.name

BatchIdle ==
    /\ bPc = "idle"
    /\ inputs = <<>>
    /\ config = NilConfig
    /\ results = <<>>
    /\ errors = <<>>
    /\ done = 0
    /\ received = 0
    /\ taskPc = <<>>
    /\ order = <<>>
    /\ batchRet = [results |-> Nil, err |-> NoError]
    /\ unit = NewBaseRunnable("BaseRunnable")

\* Batch, lines 418-429: allocate the result and error slices, create the
\* done channel and launch one goroutine per input.
BatchCall ==
    /\ bPc = "idle"
    /\ \E ins \in InputLists, cfg \in Configs, u \in BatchUnits :
        /\ inputs' = ins
        /\ unit' = u
        /\ config' = cfg
        /\ results' = [k \in 1..Len(ins) |-> Nil]
        /\ errors' = [k \in 1..Len(ins) |-> NoError]
        /\ taskPc' = [k \in 1..Len(ins) |-> "ready"]
    /\ done' = 0
    /\ received' = 0
    /\ bPc' = "waiting"
    /\ UNCHANGED << order, batchRet >>
    /\ UNCHANGED notBatch

\* TaskInvoke writing through an index shared by all goroutines (the loop
\* variable after the loop) instead of its own idx
TaskInvokeSharedIndex(idx) ==
    /\ idx \in DOMAIN taskPc
    /\ taskPc[idx] = "ready"
    /\ LET r == BaseInvoke(UnitName, inputs[idx], config)
       IN  /\ results' = [results EXCEPT ![Len(inputs)] = r.output]
           /\ errors' = [errors EXCEPT ![Len(inputs)] = r.err]
    /\ taskPc' = [taskPc EXCEPT ![idx] = "invoked"]
    /\ order' = Append(order, idx)
    /\ UNCHANGED << bPc, inputs, config, done, received, batchRet, unit >>
    /\ UNCHANGED notBatch

\* TaskInvoke invoking a second time after a failure when the
\* configuration has a retry budget
TaskInvokeRetrying(idx) ==
    /\ idx \in DOMAIN taskPc
    /\ taskPc[idx] = "ready"
    /\ LET r == BaseInvoke(UnitName, inputs[idx], config)
           budget == IF config = NilConfig THEN NewConfig.MaxRetries
                     ELSE config.MaxRetries
       IN  /\ results' = [results EXCEPT ![idx] = r.output]
           /\ errors' = [errors EXCEPT ![idx] = r.err]
           /\ order' = IF r.err.isErr /\ budget > 0
                       THEN Append(Append(order, idx), idx)
                       ELSE Append(order, idx)
    /\ taskPc' = [taskPc EXCEPT ![idx] = "invoked"]
    /\ UNCHANGED << bPc, inputs, config, done, received, batchRet, unit >>
    /\ UNCHANGED notBatch

\* goroutine idx, line 426: results[idx], errors[idx] = r.Invoke(ctx, inp, config)
TaskInvoke(idx) ==
    /\ idx \in DOMAIN taskPc
    /\ taskPc[idx] = "ready"
    /\ LET r == BaseInvoke(UnitName, inputs[idx], config)
       IN  /\ results' = [results EXCEPT ![idx] = r.output]
           /\ errors' = [errors EXCEPT ![idx] = r.err]
    /\ taskPc' = [taskPc EXCEPT ![idx] = "invoked"]
    /\ order' = Append(order, idx)
    /\ UNCHANGED << bPc, inputs, config, done, received, batchRet, unit >>
    /\ UNCHANGED notBatch

\* goroutine idx, line 427: done <- true (the channel has room for every task)
TaskDone(idx) ==
    /\ idx \in DOMAIN taskPc
    /\ taskPc[idx] = "invoked"
    /\ done < Len(inputs)
    /\ done' = done + 1
    /\ taskPc' = [taskPc EXCEPT ![idx] = "finished"]
    /\ UNCHANGED << bPc, inputs, config, results, errors, received, order, batchRet,
                    unit >>
    /\ UNCHANGED notBatch

\* Batch, lines 432-434: one receive from done
BatchWait ==
    /\ bPc = "waiting"
    /\ received < Len(inputs)
    /\ done > 0
    /\ done' = done - 1
    /\ received' = received + 1
    /\ UNCHANGED << bPc, inputs, config, results, errors, taskPc, order, batchRet,
                    unit >>
    /\ UNCHANGED notBatch

RECURSIVE FirstError(_)

\* FirstError scanning the errors slice from its end: the non-nil error of
\* the highest index
FirstErrorFromEnd(errs) ==
    IF \E k \in 1..Len(errs) : errs[k].isErr
    THEN errs[CHOOSE k \in 1..Len(errs) :
                 /\ errs[k].isErr
                 /\ \A j \in 1..Len(errs) : errs[j].isErr => j <= k]
    ELSE NoError

\* Batch, lines 437-441: the first non-nil error of the errors slice, in
\* index order
FirstError(errs) ==
    IF errs = <<>> THEN NoError
    ELSE IF Head(errs).isErr THEN Head(errs)
    ELSE FirstError(Tail(errs))

\* BatchReturn leaving the wait loop at the first completion signal of a
\* run with a failed invocation
BatchReturnFailFast ==
    /\ bPc = "waiting"
    /\ \/ received = Len(inputs)
       \/ received >= 1 /\ FirstError(errors).isErr
    /\ batchRet' = IF FirstError(errors).isErr
                   THEN [results |-> Nil, err |-> FirstError(errors)]
                   ELSE [results |-> results, err |-> NoError]
    /\ bPc' = "returned"
    /\ UNCHANGED << inputs, config, results, errors, done, received, taskPc, order,
                    unit >>
    /\ UNCHANGED notBatch

\* BatchReturn handing back the result slice along with the error
BatchReturnPartial ==
    /\ bPc = "waiting"
    /\ received = Len(inputs)
    /\ batchRet' = [results |-> results, err |-> FirstError(errors)]
    /\ bPc' = "returned"
    /\ UNCHANGED << inputs, config, results, errors, done, received, taskPc, order,
                    unit >>
    /\ UNCHANGED notBatch

\* Batch, lines 436-443: after all receives, scan the errors and return
BatchReturn ==
    /\ bPc = "waiting"
    /\ received = Len(inputs)
    /\ batchRet' = IF FirstError(errors).isErr
                   THEN [results |-> Nil, err |-> FirstError(errors)]
                   ELSE [results |-> results, err |-> NoError]
    /\ bPc' = "returned"
    /\ UNCHANGED << inputs, config, results, errors, done, received, taskPc, order,
                    unit >>
    /\ UNCHANGED notBatch

BatchNext ==
    \/ BatchCall
    \/ \E idx \in 1..MaxBatch + 1 : TaskInvoke(idx)
    \/ \E idx \in 1..MaxBatch + 1 : TaskDone(idx)
    \/ BatchWait
    \/ BatchReturn

\* ------------------------------------------------------------ composition

RECURSIVE Stream(_, _, _)
RECURSIVE SequenceStream(_, _, _)

\* what a call of Stream did by the time it returned: the Invoke calls it
\* made itself (calls), the error it returned, the state of the channel it
\* returned (open: a producer goroutine owns it; closed: closed and empty)
\* and the producer it started (streamed: the receiver and input of the
\* BaseRunnable.Stream goroutine)
StreamReturn(calls, err, chan, streamed, panicked) ==
    [calls |-> calls, err |-> err, chan |-> chan, streamed |-> streamed,
     panicked |-> panicked]

\* StreamingTextRunnable.Stream and LlamaCppLLM.Stream, up to their return:
\* an input of the wrong type is refused with a nil channel, otherwise the
\* producer goroutine is started on the unit itself
OwnStream(u, input) ==
    IF input.type = "string"
    THEN StreamReturn(<<>>, NoError, "open",
                      << [unit |-> u, input |-> input] >>, FALSE)
    ELSE StreamReturn(<<>>,
                      IF u.kind = "LlamaCppLLM"
                      THEN Errorf(<< "input must be a string or []core.Message" >>)
                      ELSE Errorf(<< "input must be string, got ", input.type >>),
                      "nil", <<>>, FALSE)

\* BaseRunnable.Stream, up to its return: the producer goroutine is started
\* on the receiver r, the embedded base unit
BaseStream(u, input) ==
    StreamReturn(<<>>, NoError, "open",
                 << [unit |-> Embedded(u), input |-> input] >>, FALSE)

\* u.Stream(ctx, input, config) through the Runnable interface
Stream(u, input, conf) ==
    IF u.kind = "RunnableSequence" THEN SequenceStream(u.steps, input, conf)
    ELSE IF u.kind \in {"StreamingTextRunnable", "LlamaCppLLM"}
    THEN OwnStream(u, input)
    ELSE BaseStream(u, input)

\* SequenceStream that also invokes the last step before streaming it
SequenceStreamInvokesAll(steps, input, conf) ==
    IF steps = <<>> THEN StreamReturn(<<>>, NoError, "none", <<>>, TRUE)
    ELSE LET r == Invoke(Head(steps), input, conf)
             c == Calls(Head(steps), input, conf)
         IN  IF r.err.isErr THEN StreamReturn(c, r.err, "closed", <<>>, FALSE)
             ELSE IF Len(steps) = 1
             THEN [Stream(Head(steps), r.output, conf) EXCEPT !.calls = c \o @]
             ELSE [SequenceStream(Tail(steps), r.output, conf)
                      EXCEPT !.calls = c \o @]

\* RunnableSequence.Stream: Invoke on every step but the last, Stream on the
\* last; indexing the last step of an empty sequence panics
SequenceStream(steps, input, conf) ==
    IF steps = <<>> THEN StreamReturn(<<>>, NoError, "none", <<>>, TRUE)
    ELSE IF Len(steps) = 1 THEN Stream(Head(steps), input, conf)
    ELSE LET r == Invoke(Head(steps), input, conf)
             c == Calls(Head(steps), input, conf)
         IN  IF r.err.isErr THEN StreamReturn(c, r.err, "closed", <<>>, FALSE)
             ELSE [SequenceStream(Tail(steps), r.output, conf)
                      EXCEPT !.calls = c \o @]

\* the units that are composed
SeqUnits ==
    { NewTrimRunnable, NewUppercaseRunnable, NewPrefixRunnable(<< ">> " >>),
      NewDoubleRunnable, NewBaseRunnable("BaseRunnable") }

\* the inputs handed to a composite
SeqInputs == { Str(<< SP, "a", SP >>), Str(<< "b" >>), Num(1) }

\* the configurations handed to a composite
SeqConfigs ==
    { NilConfig,
      [NewConfig EXCEPT !.Callbacks =
          << Callback("Guard", {Num(1)}, FALSE, FALSE) >>] }

\* the ways of composing and running the units
Compositions == {"pipe", "flat", "nested", "stream", "sequence"}

\* a composition that has not been run
NotRun ==
    [done |-> FALSE, n |-> 0, ret |-> [output |-> Nil, err |-> NoError],
     calls |-> <<>>, chan |-> "none", streamed |-> <<>>, panicked |-> FALSE]

\* the record of composite.Invoke(ctx, input, config)
InvokeRun(composite, input, conf) ==
    [NotRun EXCEPT !.done = TRUE,
                   !.ret = Invoke(composite, input, conf),
                   !.calls = Calls(composite, input, conf)]

SeqIdle ==
    /\ stepA = NewBaseRunnable("BaseRunnable")
    /\ stepB = NewBaseRunnable("BaseRunnable")
    /\ stepC = NewBaseRunnable("BaseRunnable")
    /\ seqInput = Nil
    /\ seqConfig = NilConfig
    /\ seqRet = [c \in Compositions |-> NotRun]

SeqInit ==
    /\ stepA \in SeqUnits
    /\ stepB \in SeqUnits
    /\ stepC \in SeqUnits
    /\ seqInput \in SeqInputs
    /\ seqConfig \in SeqConfigs
    /\ seqRet = [c \in Compositions |-> NotRun]

\* pipeline2 := a.Pipe(b); pipeline2.Invoke(ctx, x, config)
PipeInvoke ==
    /\ ~seqRet["pipe"].done
    /\ seqRet' = [seqRet EXCEPT !["pipe"] =
                      InvokeRun(Pipe(stepA, stepB), seqInput, seqConfig)]
    /\ UNCHANGED << stepA, stepB, stepC, seqInput, seqConfig >>
    /\ UNCHANGED notSeq

\* NewRunnableSequence([a, b]).Pipe(c).Invoke(ctx, x, config)
PipeOntoSequence ==
    /\ ~seqRet["flat"].done
    /\ seqRet' = [seqRet EXCEPT !["flat"] =
                      InvokeRun(Pipe(NewRunnableSequence(<< stepA, stepB >>), stepC),
                                seqInput, seqConfig)]
    /\ UNCHANGED << stepA, stepB, stepC, seqInput, seqConfig >>
    /\ UNCHANGED notSeq

\* NewRunnableSequence([a, NewRunnableSequence([b, c])]).Invoke(ctx, x, config)
NestedSequence ==
    /\ ~seqRet["nested"].done
    /\ seqRet' = [seqRet EXCEPT !["nested"] =
                      InvokeRun(NewRunnableSequence(
                                    << stepA, NewRunnableSequence(<< stepB, stepC >>) >>),
                                seqInput, seqConfig)]
    /\ UNCHANGED << stepA, stepB, stepC, seqInput, seqConfig >>
    /\ UNCHANGED notSeq

\* NewRunnableSequence(the first n of [a, b, c]).Stream(ctx, x, config)
StreamSequence ==
    /\ ~seqRet["stream"].done
    /\ \E n \in 0..3 :
          LET r == Stream(NewRunnableSequence(SubSeq(<< stepA, stepB, stepC >>, 1, n)),
                          seqInput, seqConfig)
          IN  seqRet' = [seqRet EXCEPT !["stream"] =
                            [NotRun EXCEPT !.done = TRUE, !.n = n,
                                           !.ret = [output |-> Nil, err |-> r.err],
                                           !.calls = r.calls, !.chan = r.chan,
                                           !.streamed = r.streamed,
                                           !.panicked = r.panicked]]
    /\ UNCHANGED << stepA, stepB, stepC, seqInput, seqConfig >>
    /\ UNCHANGED notSeq

\* NewRunnableSequence(the first n of [a, b, c]).Invoke(ctx, x, config)
SequenceRun ==
    /\ ~seqRet["sequence"].done
    /\ \E n \in 0..3 :
          seqRet' = [seqRet EXCEPT !["sequence"] =
                        [InvokeRun(NewRunnableSequence(
                                       SubSeq(<< stepA, stepB, stepC >>, 1, n)),
                                   seqInput, seqConfig) EXCEPT !.n = n]]
    /\ UNCHANGED << stepA, stepB, stepC, seqInput, seqConfig >>
    /\ UNCHANGED notSeq

\* ---------------------------------------------------------------- streams

\* an error travelling on a channel as an item
ErrorItem(e) == [type |-> "error", num |-> 0, str |-> e.msg]

\* a text of n characters
Runes(n) == [k \in 1..n |-> IF k % 2 = 1 THEN "a" ELSE "b"]

\* the items a token producer emits for a text: one per character
Items(text) == [k \in DOMAIN text |-> Str(<< text[k] >>)]

\* the units Stream is called on
StreamUnits ==
    { NewBaseRunnable("BaseRunnable"), NewDoubleRunnable,
      NewStreamingTextRunnable, NewLlamaCppLLM,
      NewRunnableSequence(<< NewTrimRunnable, NewStreamingTextRunnable >>) }

\* the inputs of a Stream call
StreamInputs == { Num(1), Str(Runes(1)), Str(Runes(MaxTokens)) }

\* capacity of the channel the producer of unit u sends on
Cap(u) == IF u.kind = "BaseRunnable" THEN DefaultStreamCap ELSE TokenStreamCap

StreamIdle ==
    /\ sUnit = NewBaseRunnable("BaseRunnable")
    /\ sInput = Nil
    /\ sConfig = NilConfig
    /\ sCtx = "background"
    /\ sPc = "idle"
    /\ sProducer = <<>>
    /\ sPending = <<>>
    /\ sOut = <<>>
    /\ sClosed = FALSE
    /\ sConsumer = "reading"
    /\ sDelivered = <<>>
    /\ sCalls = <<>>
    /\ sErr = NoError

\* the caller holds a unit, an input, a configuration and a context that is
\* either context.Background() or one it can cancel
StreamInit ==
    /\ sUnit \in StreamUnits
    /\ sInput \in StreamInputs
    /\ sConfig \in SeqConfigs
    /\ sCtx \in {"background", "live"}
    /\ sPc = "idle"
    /\ sProducer = <<>>
    /\ sPending = <<>>
    /\ sOut = <<>>
    /\ sClosed = FALSE
    /\ sConsumer = "reading"
    /\ sDelivered = <<>>
    /\ sCalls = <<>>
    /\ sErr = NoError

\* stream, err := unit.Stream(ctx, input, config): the call up to its
\* return.  The default producer will invoke; the character streamer has
\* the characters of its input to emit; for the model wrapper Predict
\* decides how many tokens there are.
StreamCall ==
    /\ sPc = "idle"
    /\ LET r == Stream(sUnit, sInput, sConfig)
       IN  /\ sErr' = r.err
           /\ sCalls' = r.calls
           /\ sProducer' = r.streamed
           /\ sClosed' = (r.chan = "closed")
           /\ IF r.streamed = <<>>
              THEN sPc' = "refused" /\ sPending' = <<>>
              ELSE CASE r.streamed[1].unit.kind = "BaseRunnable" ->
                          sPc' = "invoke" /\ sPending' = <<>>
                     [] r.streamed[1].unit.kind = "StreamingTextRunnable" ->
                          /\ sPc' = "produce"
                          /\ sPending' = Items(r.streamed[1].input.str)
                     [] OTHER ->
                          /\ sPc' = "produce"
                          /\ \E n \in 0..MaxTokens : sPending' = Items(Runes(n))
    /\ UNCHANGED << sUnit, sInput, sConfig, sCtx, sOut, sConsumer, sDelivered >>
    /\ UNCHANGED notStream

\* DefaultProduce sending the result of the Invoke whether or not it failed
DefaultProduceSendsAlways ==
    /\ sPc = "invoke"
    /\ LET r == Invoke(sProducer[1].unit, sProducer[1].input, sConfig)
       IN  /\ sCalls' = Append(sCalls, sProducer[1])
           /\ sOut' = Append(sOut, r.output)
    /\ sPc' = "closed"
    /\ sClosed' = TRUE
    /\ UNCHANGED << sUnit, sInput, sConfig, sCtx, sProducer, sPending, sConsumer,
                    sDelivered, sErr >>
    /\ UNCHANGED notStream

\* BaseRunnable.Stream goroutine, lines 406-413: one r.Invoke; on an error
\* the goroutine returns; otherwise it sends the result, for which the
\* channel has room; the deferred close runs in both cases
DefaultProduce ==
    /\ sPc = "invoke"
    /\ LET r == Invoke(sProducer[1].unit, sProducer[1].input, sConfig)
       IN  /\ sCalls' = Append(sCalls, sProducer[1])
           /\ sOut' = IF r.err.isErr THEN sOut ELSE Append(sOut, r.output)
    /\ sPc' = "closed"
    /\ sClosed' = TRUE
    /\ UNCHANGED << sUnit, sInput, sConfig, sCtx, sProducer, sPending, sConsumer,
                    sDelivered, sErr >>
    /\ UNCHANGED notStream

\* token producers: the send case of the select, taken when the channel
\* has room (also when ctx.Done() is ready: select picks either)
ProduceSend ==
    /\ sPc = "produce"
    /\ sPending # <<>>
    /\ Len(sOut) < Cap(sProducer[1].unit)
    /\ sOut' = Append(sOut, Head(sPending))
    /\ sPending' = Tail(sPending)
    /\ UNCHANGED << sUnit, sInput, sConfig, sCtx, sPc, sProducer, sClosed,
                    sConsumer, sDelivered, sCalls, sErr >>
    /\ UNCHANGED notStream

\* how the producer goroutine goes on once production is over: the
\* character streamer returns (deferred close); Predict returns nil or an
\* error, and the model wrapper then sends the error before closing
ProductionOver(failed) ==
    IF sProducer[1].unit.kind = "LlamaCppLLM" /\ failed
    THEN sPc' = "sendErr" /\ sClosed' = FALSE
    ELSE sPc' = "closed" /\ sClosed' = TRUE

\* token producers: the ctx.Done() case of the select stops production
ProduceCancelled ==
    /\ sPc = "produce"
    /\ sPending # <<>>
    /\ sCtx = "cancelled"
    /\ \E failed \in BOOLEAN : ProductionOver(failed)
    /\ sPending' = <<>>
    /\ UNCHANGED << sUnit, sInput, sConfig, sCtx, sProducer, sOut, sConsumer,
                    sDelivered, sCalls, sErr >>
    /\ UNCHANGED notStream

\* token producers: the last item was sent (the loop over the characters
\* ends; Predict returns)
ProduceEnd ==
    /\ sPc = "produce"
    /\ sPending = <<>>
    /\ \E failed \in BOOLEAN : ProductionOver(failed)
    /\ UNCHANGED << sUnit, sInput, sConfig, sCtx, sProducer, sPending, sOut,
                    sConsumer, sDelivered, sCalls, sErr >>
    /\ UNCHANGED notStream

\* model wrapper: Predict fails before it has emitted all of its tokens
PredictFails ==
    /\ sPc = "produce"
    /\ sPending # <<>>
    /\ sProducer[1].unit.kind = "LlamaCppLLM"
    /\ ProductionOver(TRUE)
    /\ sPending' = <<>>
    /\ UNCHANGED << sUnit, sInput, sConfig, sCtx, sProducer, sOut, sConsumer,
                    sDelivered, sCalls, sErr >>
    /\ UNCHANGED notStream

\* model wrapper, lines 722-724: out <- fmt.Errorf("streaming failed: %w", err),
\* a plain send, then the deferred close
SendError ==
    /\ sPc = "sendErr"
    /\ Len(sOut) < Cap(sProducer[1].unit)
    /\ sOut' = Append(sOut, ErrorItem(Errorf(<< "streaming failed: ", "predict" >>)))
    /\ sPc' = "closed"
    /\ sClosed' = TRUE
    /\ UNCHANGED << sUnit, sInput, sConfig, sCtx, sProducer, sPending, sConsumer,
                    sDelivered, sCalls, sErr >>
    /\ UNCHANGED notStream

\* the channel the consumer holds is one it can receive from
HasStream == sPc \notin {"idle", "refused"} \/ sClosed

\* consumer: one receive of an item (for char := range stream)
ConsumerReceive ==
    /\ HasStream
    /\ sConsumer = "reading"
    /\ sOut # <<>>
    /\ sDelivered' = Append(sDelivered, Head(sOut))
    /\ sOut' = Tail(sOut)
    /\ UNCHANGED << sUnit, sInput, sConfig, sCtx, sPc, sProducer, sPending,
                    sClosed, sConsumer, sCalls, sErr >>
    /\ UNCHANGED notStream

\* consumer: the receive on the closed, empty channel ends the range loop
ConsumerDrained ==
    /\ HasStream
    /\ sConsumer = "reading"
    /\ sOut = <<>>
    /\ sClosed
    /\ sConsumer' = "drained"
    /\ UNCHANGED << sUnit, sInput, sConfig, sCtx, sPc, sProducer, sPending, sOut,
                    sClosed, sDelivered, sCalls, sErr >>
    /\ UNCHANGED notStream

\* consumer: stops reading for good
ConsumerAbandon ==
    /\ HasStream
    /\ sConsumer = "reading"
    /\ sConsumer' = "abandoned"
    /\ UNCHANGED << sUnit, sInput, sConfig, sCtx, sPc, sProducer, sPending, sOut,
                    sClosed, sDelivered, sCalls, sErr >>
    /\ UNCHANGED notStream

\* the caller cancels the context (or its deadline passes)
Cancel ==
    /\ sPc # "idle"
    /\ sCtx = "live"
    /\ sCtx' = "cancelled"
    /\ UNCHANGED << sUnit, sInput, sConfig, sPc, sProducer, sPending, sOut,
                    sClosed, sConsumer, sDelivered, sCalls, sErr >>
    /\ UNCHANGED notStream

\* -------------------------------------------------------------- parallel

\* the branch names a mapping can use
BranchNames == << "first", "second", "third", "fourth", "fifth" >>

\* the keys a mapping can use (Go strings)
Names == { BranchNames[n] : n \in 1..MaxBranches }

\* the position of the key k among the branch names
BranchIndex(k) == CHOOSE n \in 1..Len(BranchNames) : BranchNames[n] = k

\* the units a mapping can hold
ParUnits ==
    { NewTrimRunnable, NewUppercaseRunnable, NewDoubleRunnable }

\* the name -> unit mappings
Mappings == UNION { [S -> ParUnits] : S \in SUBSET Names }

\* the inputs of a parallel Invoke
ParInputs == { Str(<< SP, "a", SP >>), Num(1) }

\* the empty map
EmptyMap == [k \in {} |-> Nil]

ParIdle ==
    /\ pRunnables = EmptyMap
    /\ pInput = Nil
    /\ pConfig = NilConfig
    /\ pPc = "idle"
    /\ pTask = EmptyMap
    /\ pOutcome = EmptyMap
    /\ pChan = <<>>
    /\ pCount = 0
    /\ pOutput = EmptyMap
    /\ pRet = [output |-> Nil, err |-> NoError]
    /\ pCalls = <<>>

\* NewRunnableParallel(runnables) and the arguments of the Invoke to come
ParInit ==
    /\ pRunnables \in Mappings
    /\ pInput \in ParInputs
    /\ pConfig = NilConfig
    /\ pPc = "idle"
    /\ pTask = EmptyMap
    /\ pOutcome = EmptyMap
    /\ pChan = <<>>
    /\ pCount = 0
    /\ pOutput = EmptyMap
    /\ pRet = [output |-> Nil, err |-> NoError]
    /\ pCalls = <<>>

\* RunnableParallel.Invoke, lines 530-548: a nil config becomes NewConfig(),
\* the results channel is made and one goroutine per entry is launched
ParallelCall ==
    /\ pPc = "idle"
    /\ pConfig' = IF pConfig = NilConfig THEN NewConfig ELSE pConfig
    /\ pTask' = [k \in DOMAIN pRunnables |-> "ready"]
    /\ pOutcome' = [k \in DOMAIN pRunnables |-> [output |-> Nil, err |-> NoError]]
    /\ pPc' = "collecting"
    /\ UNCHANGED << pRunnables, pInput, pChan, pCount, pOutput, pRet, pCalls >>
    /\ UNCHANGED notPar

\* goroutine k, line 545: output, err := r.Invoke(ctx, input, config)
BranchInvoke(k) ==
    /\ k \in DOMAIN pTask
    /\ pTask[k] = "ready"
    /\ pTask' = [pTask EXCEPT ![k] = "invoked"]
    /\ pOutcome' = [pOutcome EXCEPT ![k] = Invoke(pRunnables[k], pInput, pConfig)]
    /\ pCalls' = Append(pCalls, [key |-> k, input |-> pInput])
    /\ UNCHANGED << pRunnables, pInput, pConfig, pPc, pChan, pCount, pOutput, pRet >>
    /\ UNCHANGED notPar

\* BranchSend labelling the result with a name shared by all goroutines
BranchSendSharedKey(k) ==
    /\ k \in DOMAIN pTask
    /\ pTask[k] = "invoked"
    /\ Len(pChan) < Cardinality(DOMAIN pRunnables)
    /\ pTask' = [pTask EXCEPT ![k] = "sent"]
    /\ pChan' = Append(pChan,
                       [key |-> CHOOSE m \in DOMAIN pRunnables :
                                    \A o \in DOMAIN pRunnables :
                                        BranchIndex(m) >= BranchIndex(o),
                        value |-> pOutcome[k].output, err |-> pOutcome[k].err])
    /\ UNCHANGED << pRunnables, pInput, pConfig, pPc, pOutcome, pCount, pOutput,
                    pRet, pCalls >>
    /\ UNCHANGED notPar

\* BranchSend on a results channel with room for a single result
BranchSendCapOne(k) ==
    /\ k \in DOMAIN pTask
    /\ pTask[k] = "invoked"
    /\ Len(pChan) < 1
    /\ pTask' = [pTask EXCEPT ![k] = "sent"]
    /\ pChan' = Append(pChan, [key |-> k, value |-> pOutcome[k].output,
                               err |-> pOutcome[k].err])
    /\ UNCHANGED << pRunnables, pInput, pConfig, pPc, pOutcome, pCount, pOutput,
                    pRet, pCalls >>
    /\ UNCHANGED notPar

\* goroutine k, line 546: results <- result{key: k, value: output, err: err}
\* (the channel has room for every branch)
BranchSend(k) ==
    /\ k \in DOMAIN pTask
    /\ pTask[k] = "invoked"
    /\ Len(pChan) < Cardinality(DOMAIN pRunnables)
    /\ pTask' = [pTask EXCEPT ![k] = "sent"]
    /\ pChan' = Append(pChan, [key |-> k, value |-> pOutcome[k].output,
                               err |-> pOutcome[k].err])
    /\ UNCHANGED << pRunnables, pInput, pConfig, pPc, pOutcome, pCount, pOutput,
                    pRet, pCalls >>
    /\ UNCHANGED notPar

\* the map m with key k set to value v
MapPut(m, k, v) ==
    [x \in DOMAIN m \cup {k} |-> IF x = k THEN v ELSE m[x]]

\* Collect passing over a failed result and going on with the next
CollectSkipsError ==
    /\ pPc = "collecting"
    /\ pCount < Cardinality(DOMAIN pRunnables)
    /\ pChan # <<>>
    /\ pChan' = Tail(pChan)
    /\ pCount' = pCount + 1
    /\ pOutput' = IF Head(pChan).err.isErr THEN pOutput
                  ELSE MapPut(pOutput, Head(pChan).key, Head(pChan).value)
    /\ UNCHANGED << pRunnables, pInput, pConfig, pPc, pTask, pOutcome, pRet, pCalls >>
    /\ UNCHANGED notPar

\* RunnableParallel.Invoke, lines 552-558: one receive from results; a
\* failed result is returned at once, a good one stored under its key
Collect ==
    /\ pPc = "collecting"
    /\ pCount < Cardinality(DOMAIN pRunnables)
    /\ pChan # <<>>
    /\ pChan' = Tail(pChan)
    /\ IF Head(pChan).err.isErr
       THEN /\ pRet' = [output |-> Nil, err |-> Head(pChan).err]
            /\ pPc' = "returned"
            /\ UNCHANGED << pCount, pOutput >>
       ELSE /\ pOutput' = MapPut(pOutput, Head(pChan).key, Head(pChan).value)
            /\ pCount' = pCount + 1
            /\ UNCHANGED << pPc, pRet >>
    /\ UNCHANGED << pRunnables, pInput, pConfig, pTask, pOutcome, pCalls >>
    /\ UNCHANGED notPar

\* RunnableParallel.Invoke, line 561: return output, nil
ParallelReturn ==
    /\ pPc = "collecting"
    /\ pCount = Cardinality(DOMAIN pRunnables)
    /\ pRet' = [output |-> pOutput, err |-> NoError]
    /\ pPc' = "returned"
    /\ UNCHANGED << pRunnables, pInput, pConfig, pTask, pOutcome, pChan, pCount,
                    pOutput, pCalls >>
    /\ UNCHANGED notPar

\* -------------------------------------------------------- observer events

\* One entry of the history of an Invoke: the observer at position pos of
\* the list was notified of event for runnable, or (pos = 0) the logic of
\* runnable was called; ok tells whether the callee returned a nil error.
Notification(runnable, pos, observer, event, ok) ==
    [runnable |-> runnable, pos |-> pos, observer |-> observer,
     event |-> event, ok |-> ok]

\* the loop of CallbackManager.HandleStart from position pos on: the
\* OnStart calls it makes
RECURSIVE HandleStartCalls(_, _, _, _)
HandleStartCalls(callbacks, input, runnable, pos) ==
    IF callbacks = <<>> THEN <<>>
    ELSE LET failed == input \in Head(callbacks).failStart
         IN  << Notification(runnable, pos, Head(callbacks).name, "OnStart",
                             ~failed) >>
             \o (IF failed THEN <<>>
                 ELSE HandleStartCalls(Tail(callbacks), input, runnable, pos + 1))

\* the OnEnd calls of CallbackManager.HandleEnd
RECURSIVE HandleEndCalls(_, _, _, _)
HandleEndCalls(callbacks, output, runnable, pos) ==
    IF callbacks = <<>> THEN <<>>
    ELSE LET failed == Head(callbacks).failEnd
         IN  << Notification(runnable, pos, Head(callbacks).name, "OnEnd",
                             ~failed) >>
             \o (IF failed THEN <<>>
                 ELSE HandleEndCalls(Tail(callbacks), output, runnable, pos + 1))

RECURSIVE HandleErrorCalls(_, _, _, _)
RECURSIVE HandleErrorCallsAll(_, _, _, _)

\* HandleErrorCalls notifying every observer whatever the earlier ones return
HandleErrorCallsAll(callbacks, err, runnable, pos) ==
    IF callbacks = <<>> THEN <<>>
    ELSE << Notification(runnable, pos, Head(callbacks).name, "OnError",
                         ~Head(callbacks).failError) >>
         \o HandleErrorCallsAll(Tail(callbacks), err, runnable, pos + 1)

\* the OnError calls of CallbackManager.HandleError
HandleErrorCalls(callbacks, err, runnable, pos) ==
    IF callbacks = <<>> THEN <<>>
    ELSE LET failed == Head(callbacks).failError
         IN  << Notification(runnable, pos, Head(callbacks).name, "OnError",
                             ~failed) >>
             \o (IF failed THEN <<>>
                 ELSE HandleErrorCalls(Tail(callbacks), err, runnable, pos + 1))

\* BaseInvokeEvents running the logic before the observers hear of the start
BaseInvokeEventsLogicFirst(name, input, conf) ==
    LET cfg == IF conf = NilConfig THEN NewConfig ELSE conf
        res == call(name, input)
    IN  << Notification(name, 0, "", "call", ~res.err.isErr) >>
        \o HandleStartCalls(cfg.Callbacks, input, name, 1)
        \o (IF HandleStart(cfg.Callbacks, input).isErr THEN <<>>
            ELSE HandleErrorCalls(cfg.Callbacks, res.err, name, 1))

\* BaseInvokeEvents going on to the logic after a failed HandleStart
BaseInvokeEventsIgnoresStart(name, input, conf) ==
    LET cfg == IF conf = NilConfig THEN NewConfig ELSE conf
        res == call(name, input)
    IN  HandleStartCalls(cfg.Callbacks, input, name, 1)
        \o << Notification(name, 0, "", "call", ~res.err.isErr) >>
        \o (IF res.err.isErr
            THEN HandleErrorCalls(cfg.Callbacks, res.err, name, 1)
            ELSE HandleEndCalls(cfg.Callbacks, res.output, name, 1))

\* the observer methods and the logic BaseRunnable.Invoke calls, in order
BaseInvokeEvents(name, input, conf) ==
    LET cfg == IF conf = NilConfig THEN NewConfig ELSE conf
        res == call(name, input)
    IN  HandleStartCalls(cfg.Callbacks, input, name, 1)
        \o (IF HandleStart(cfg.Callbacks, input).isErr THEN <<>>
            ELSE << Notification(name, 0, "", "call", ~res.err.isErr) >>
                 \o (IF res.err.isErr
                     THEN HandleErrorCalls(cfg.Callbacks, res.err, name, 1)
                     ELSE HandleEndCalls(cfg.Callbacks, res.output, name, 1)))

RECURSIVE InvokeEvents(_, _, _)
RECURSIVE SequenceInvokeEvents(_, _, _)

\* the observer methods and base logic called while u.Invoke(ctx, input,
\* config) runs: the Invoke methods of the composite and of the tutorial
\* units never touch config.Callbacks, a sequence only hands config on
InvokeEvents(u, input, conf) ==
    CASE u.kind = "RunnableSequence" ->
            SequenceInvokeEvents(u.steps, input, conf)
      [] u.kind \in {"BaseRunnable", "StreamingTextRunnable"} ->
            BaseInvokeEvents(u.name, input, conf)
      [] OTHER -> <<>>

\* the events of the loop of RunnableSequence.Invoke
SequenceInvokeEvents(steps, input, conf) ==
    IF steps = <<>> THEN <<>>
    ELSE LET r == Invoke(Head(steps), input, conf)
         IN  InvokeEvents(Head(steps), input, conf)
             \o (IF r.err.isErr THEN <<>>
                 ELSE SequenceInvokeEvents(Tail(steps), r.output, conf))

\* the observers of the model: the logging observer and three that fail,
\* one on each event
Observers ==
    { LoggingCallback,
      Callback("Guard", {Num(1)}, FALSE, FALSE),
      Callback("Audit", {}, TRUE, FALSE),
      Callback("Meter", {}, FALSE, TRUE) }

\* the configurations a caller passes: nil, or one with up to MaxObservers
\* observers
ObsConfigs ==
    {NilConfig}
    \cup { [NewConfig EXCEPT !.Callbacks = l] :
             l \in UNION { [1..n -> Observers] : n \in 0..MaxObservers } }

\* the units Invoke is called on: the base unit, units that define their
\* own Invoke, and sequences of them
ObsUnits ==
    { NewBaseRunnable("Base"),
      NewDoubleRunnable,
      NewTrimRunnable,
      NewRunnableSequence(<< NewDoubleRunnable, NewBaseRunnable("Base") >>),
      NewRunnableSequence(<< NewTrimRunnable, NewUppercaseRunnable >>) }

ObsInputs == { Num(1), Num(2), Str(<< SP, "a" >>) }

\* the error handed to HandleError when it is called directly
LogicError == Errorf(<< "logic failed" >>)

ObsIdle ==
    /\ oUnit = NewBaseRunnable("Base")
    /\ oInput = Nil
    /\ oConfig = NilConfig
    /\ oOp = "none"
    /\ oEvents = <<>>
    /\ oRet = [output |-> Nil, err |-> NoError]

ObsInit ==
    /\ oUnit \in ObsUnits
    /\ oInput \in ObsInputs
    /\ oConfig \in ObsConfigs
    /\ oOp = "none"
    /\ oEvents = <<>>
    /\ oRet = [output |-> Nil, err |-> NoError]

\* NewCallbackManager(config.Callbacks).HandleStart(ctx, oUnit, oInput)
HandleStartCall ==
    /\ oOp' = "HandleStart"
    /\ oEvents' = HandleStartCalls(oConfig.Callbacks, oInput, oUnit.name, 1)
    /\ oRet' = [output |-> Nil, err |-> HandleStart(oConfig.Callbacks, oInput)]
    /\ UNCHANGED << oUnit, oInput, oConfig >>
    /\ UNCHANGED notObs

\* NewCallbackManager(config.Callbacks).HandleEnd(ctx, oUnit, oInput)
HandleEndCall ==
    /\ oOp' = "HandleEnd"
    /\ oEvents' = HandleEndCalls(oConfig.Callbacks, oInput, oUnit.name, 1)
    /\ oRet' = [output |-> Nil, err |-> HandleEnd(oConfig.Callbacks, oInput)]
    /\ UNCHANGED << oUnit, oInput, oConfig >>
    /\ UNCHANGED notObs

\* NewCallbackManager(config.Callbacks).HandleError(ctx, oUnit, LogicError)
HandleErrorCall ==
    /\ oOp' = "HandleError"
    /\ oEvents' = HandleErrorCalls(oConfig.Callbacks, LogicError, oUnit.name, 1)
    /\ oRet' = [output |-> Nil, err |-> HandleError(oConfig.Callbacks, LogicError)]
    /\ UNCHANGED << oUnit, oInput, oConfig >>
    /\ UNCHANGED notObs

\* oUnit.Invoke(ctx, oInput, oConfig)
InvokeCall ==
    /\ oOp' = "Invoke"
    /\ oEvents' = InvokeEvents(oUnit, oInput, oConfig)
    /\ oRet' = Invoke(oUnit, oInput, oConfig)
    /\ UNCHANGED << oUnit, oInput, oConfig >>
    /\ UNCHANGED notObs

\* ------------------------------------------------- calls on a registry

\* the tools handed to Register: two of them share the name "calculator"
RegTools ==
    { NewGetCurrentTimeTool,
      NewCalculatorTool,
      NewBaseTool(<< "calculator" >>, << "an older calculator" >>) }

\* the names looked up: two that tools carry and one that none does
RegNames == { << "calculator" >>, << "getCurrentTime" >>, << "search" >> }

\* the argument payloads: empty, decodable, and not a JSON object
Payloads ==
    { <<>>, << "{}" >>, << "{\"expression\":\"2+2\"}" >>,
      << "{\"expression\":5}" >>, << "not json" >>,
      << "{}", SP, "{}" >> }

RegIdle ==
    /\ registry = NewToolRegistry
    /\ registered = <<>>
    /\ regOp = "none"
    /\ regArg = [name |-> <<>>, payload |-> <<>>]
    /\ regRet = [ok |-> FALSE]

\* registry.Register(tool)
RegisterCall ==
    /\ Len(registered) < MaxRegister
    /\ \E tool \in RegTools :
          /\ registry' = Register(registry, tool)
          /\ registered' = Append(registered, tool)
          /\ regArg' = [name |-> tool.name, payload |-> <<>>]
    /\ regOp' = "Register"
    /\ regRet' = [ok |-> TRUE]
    /\ UNCHANGED notReg

\* registry.Get(name)
GetCall ==
    /\ \E name \in RegNames :
          /\ regArg' = [name |-> name, payload |-> <<>>]
          /\ regRet' = Get(registry, name)
    /\ regOp' = "Get"
    /\ UNCHANGED << registry, registered >>
    /\ UNCHANGED notReg

\* registry.GetAll()
GetAllCall ==
    /\ \E all \in GetAll(registry) : regRet' = [all |-> all]
    /\ regOp' = "GetAll"
    /\ regArg' = [name |-> <<>>, payload |-> <<>>]
    /\ UNCHANGED << registry, registered >>
    /\ UNCHANGED notReg

\* registry.ExecuteTool(ctx, name, argsJSON)
ExecuteToolCall ==
    /\ \E name \in RegNames, argsJSON \in Payloads :
          /\ regArg' = [name |-> name, payload |-> argsJSON]
          /\ regRet' = ExecuteTool(registry, name, argsJSON)
    /\ regOp' = "ExecuteTool"
    /\ UNCHANGED << registry, registered >>
    /\ UNCHANGED notReg

\* ---------------------------------------------- Run calls on one agent

\* GetScratchpad()
GetScratchpad == scratchpad

SessIdle ==
    /\ runs = 0
    /\ mark = 0

\* Run called again on an agent whose earlier Run has returned (lines
\* 33-41): the locals start afresh, the fields of the agent are what the
\* earlier Run left
RunAgain ==
    /\ pc \in {"done", "failed", "exhausted"}
    /\ runs + 1 < MaxRuns
    /\ \E query \in Queries, all1 \in GetAll(tools), all2 \in GetAll(tools) :
          prompt' = buildSystemPrompt(all1, all2)
                    \o << NL, NL, "Question: " >> \o query
                    \o << NL, NL, ThoughtMarker >>
    /\ i' = 0
    /\ pc' = "loop"
    /\ responseStr' = <<>>
    /\ action' = <<>>
    /\ actionInput' = <<>>
    /\ observation' = <<>>
    /\ answer' = <<>>
    /\ runErr' = NoError
    /\ runs' = runs + 1
    /\ mark' = Len(scratchpad)
    /\ UNCHANGED << tools, maxIter, scratchpad, llmLog, toolLog >>
    /\ UNCHANGED notSession

\* ------------------------------------------------- messages and history

\* the values rand.Intn draws for a message identifier
Rands == {1, 2}

\* no side metadata: the empty map NewBaseMessage makes of nil kwargs
NoKwargs == [k \in {} |-> ""]

\* a nil core.Message
NoMessage ==
    [type |-> "nil", ID |-> <<>>, Content |-> "", Timestamp |-> 0,
     AdditionalKwargs |-> NoKwargs, ToolCalls |-> <<>>, ToolCallID |-> ""]

\* generateMessageID(): "msg_<now>_<random>"
generateMessageID(now, random) == << "msg_", now, "_", random >>

\* NewBaseMessage(content, kwargs) at time now, as a message of type type
NewBaseMessage(type, content, kwargs, now, random) ==
    [type |-> type, ID |-> generateMessageID(now, random), Content |-> content,
     Timestamp |-> now, AdditionalKwargs |-> kwargs, ToolCalls |-> <<>>,
     ToolCallID |-> ""]

NewSystemMessage(content, kwargs, now, random) ==
    NewBaseMessage("system", content, kwargs, now, random)

NewHumanMessage(content, kwargs, now, random) ==
    NewBaseMessage("human", content, kwargs, now, random)

\* NewAIMessage: the tool calls are taken from kwargs["tool_calls"], which
\* stays in the side metadata as well
NewAIMessage(content, kwargs, now, random) ==
    [NewBaseMessage("ai", content, kwargs, now, random) EXCEPT
        !.ToolCalls = IF "tool_calls" \in DOMAIN kwargs THEN kwargs["tool_calls"]
                      ELSE <<>>]

NewToolMessage(content, toolCallID, kwargs, now, random) ==
    [NewBaseMessage("tool", content, kwargs, now, random) EXCEPT
        !.ToolCallID = toolCallID]

\* a ToolCall value
ToolCall(id, name, arguments) ==
    [id |-> id, type |-> "function",
     function |-> [name |-> name, arguments |-> arguments]]

\* ToJSON keeping only the type and the content of a message
ToJSONContentOnly(m) ==
    [k \in {"type", "content"} |-> IF k = "type" THEN m.type ELSE m.Content]

\* m.ToJSON(): the JSON object of a message, as the map from its keys to
\* their values.  The fixed keys are written first and every entry of the
\* side metadata is then written over them.
ToJSON(m) ==
    LET keys == {"id", "type", "content", "timestamp"}
                \cup (IF m.type = "ai" /\ Len(m.ToolCalls) > 0
                      THEN {"tool_calls"} ELSE {})
                \cup (IF m.type = "tool" THEN {"tool_call_id"} ELSE {})
        data == [k \in keys |->
                    CASE k = "id" -> m.ID
                      [] k = "type" -> m.type
                      [] k = "content" -> m.Content
                      [] k = "timestamp" -> m.Timestamp
                      [] k = "tool_calls" -> m.ToolCalls
                      [] k = "tool_call_id" -> m.ToolCallID]
    IN  [k \in keys \cup DOMAIN m.AdditionalKwargs |->
            IF k \in DOMAIN m.AdditionalKwargs THEN m.AdditionalKwargs[k]
            ELSE data[k]]

\* NewChatHistoryManagerSolution(maxSize)
NewChatHistoryManager(maxSize) ==
    [messages |-> <<>>, maxSize |-> maxSize, systemMsg |-> NoMessage]

\* AddMessage never evicting: the window grows without limit
AddMessageNoWindow(h, msg) ==
    IF msg.type = "system" THEN [h EXCEPT !.systemMsg = msg]
    ELSE [h EXCEPT !.messages = Append(h.messages, msg)]

\* h.AddMessage(msg)
AddMessage(h, msg) ==
    IF msg.type = "system" THEN [h EXCEPT !.systemMsg = msg]
    ELSE LET appended == Append(h.messages, msg)
         IN  [h EXCEPT !.messages = IF Len(appended) > h.maxSize
                                    THEN Tail(appended) ELSE appended]

\* h.GetMessages(): the system message, when there is one, then the window
GetMessages(h) ==
    (IF h.systemMsg # NoMessage THEN << h.systemMsg >> ELSE <<>>) \o h.messages

\* h.Clear()
Clear(h) == [h EXCEPT !.messages = <<>>, !.systemMsg = NoMessage]

\* what Save writes: the JSON object of each message of GetMessages, in
\* order (json.MarshalIndent of the list, read back by json.Unmarshal into
\* []map[string]interface{}, gives these objects again)
Save(h) == [k \in 1..Len(GetMessages(h)) |-> ToJSON(GetMessages(h)[k])]

\* the message Load makes of one saved object: a new message of the saved
\* type and content (and tool-call id), created at time now
Restore(raw, now, random) ==
    CASE raw["type"] = "system" -> NewSystemMessage(raw["content"], NoKwargs, now, random)
      [] raw["type"] = "human" -> NewHumanMessage(raw["content"], NoKwargs, now, random)
      [] raw["type"] = "ai" -> NewAIMessage(raw["content"], NoKwargs, now, random)
      [] raw["type"] = "tool" ->
            NewToolMessage(raw["content"], raw["tool_call_id"], NoKwargs, now, random)

\* the loop of Load: AddMessage of the message made of each saved object
RECURSIVE LoadLoop(_, _, _, _)
LoadLoop(h, raws, now, randoms) ==
    IF raws = <<>> THEN h
    ELSE LoadLoop(AddMessage(h, Restore(Head(raws), now, Head(randoms))),
                  Tail(raws), now, Tail(randoms))

\* h.Load(filename) on a file Save wrote
Load(h, raws, now, randoms) == LoadLoop(Clear(h), raws, now, randoms)

\* the messages a caller creates at time now
NewMessages(now, random) ==
    { NewSystemMessage("You are helpful", NoKwargs, now, random),
      NewHumanMessage("Hello", [k \in {"source"} |-> "web"], now, random),
      NewAIMessage("Hi!", NoKwargs, now, random),
      NewAIMessage("", [k \in {"tool_calls"} |->
                          << ToolCall("call_1", "calculator", "{}") >>],
                   now, random),
      NewToolMessage("4", "call_1", NoKwargs, now, random) }

\* the saved file that does not exist
NoFile == << [type |-> "none"] >>

HistIdle ==
    /\ history = NewChatHistoryManager(0)
    /\ added = <<>>
    /\ clock = 1
    /\ file = NoFile
    /\ hOp = "none"

HistInit ==
    /\ \E maxSize \in 0..MaxSize : history = NewChatHistoryManager(maxSize)
    /\ added = <<>>
    /\ clock = 1
    /\ file = NoFile
    /\ hOp = "none"

\* a millisecond passes
Tick ==
    /\ clock < MaxClock
    /\ clock' = clock + 1
    /\ UNCHANGED << history, added, file, hOp >>
    /\ UNCHANGED notHist

\* history.AddMessage(msg) of a message created now
AddMessageCall ==
    /\ Len(added) < MaxAdds
    /\ \E random \in Rands : \E msg \in NewMessages(clock, random) :
          /\ history' = AddMessage(history, msg)
          /\ added' = Append(added, msg)
    /\ hOp' = "AddMessage"
    /\ UNCHANGED << clock, file >>
    /\ UNCHANGED notHist

\* history.Save(filename)
SaveCall ==
    /\ file' = Save(history)
    /\ hOp' = "Save"
    /\ UNCHANGED << history, added, clock >>
    /\ UNCHANGED notHist

\* history.Load(filename) of the file saved before
LoadCall ==
    /\ file # NoFile
    /\ \E randoms \in [1..Len(file) -> Rands] :
          /\ history' = Load(history, file, clock, randoms)
          /\ added' = [k \in 1..Len(file) |-> Restore(file[k], clock, randoms[k])]
    /\ hOp' = "Load"
    /\ UNCHANGED << clock, file >>
    /\ UNCHANGED notHist

\* --------------------------------------------------------- specifications

\* the agent when it is not the subject: never started
AgentIdle ==
    /\ NewReActAgent(NewToolRegistry, 0)
    /\ pc = "idle"
    /\ i = 0
    /\ prompt = <<>>
    /\ responseStr = <<>>
    /\ action = <<>>
    /\ actionInput = <<>>
    /\ observation = <<>>
    /\ answer = <<>>
    /\ runErr = NoError
    /\ llmLog = <<>>
    /\ toolLog = <<>>

\* The reasoning loop of one agent.
ReActInit ==
    AgentInit /\ BatchIdle /\ SeqIdle /\ StreamIdle /\ ParIdle /\ ObsIdle /\ RegIdle
    /\ SessIdle /\ HistIdle
ReActNext == RunStart \/ Reason \/ Act \/ Observe \/ Exhaust
ReActSpec == ReActInit /\ [][ReActNext]_vars

\* One Batch call on the base runnable and its goroutines.
BatchInit ==
    AgentIdle /\ BatchIdle /\ SeqIdle /\ StreamIdle /\ ParIdle /\ ObsIdle /\ RegIdle
    /\ SessIdle /\ HistIdle
BatchSpec == BatchInit /\ [][BatchNext]_vars

\* Three units composed by Pipe and NewRunnableSequence, then run.
SequenceInit ==
    AgentIdle /\ BatchIdle /\ SeqInit /\ StreamIdle /\ ParIdle /\ ObsIdle /\ RegIdle
    /\ SessIdle /\ HistIdle
SequenceNext ==
    PipeInvoke \/ PipeOntoSequence \/ NestedSequence \/ StreamSequence \/ SequenceRun
SequenceSpec == SequenceInit /\ [][SequenceNext]_vars

\* One Stream call, its producer goroutine, the consumer and the context.
StreamingInit ==
    AgentIdle /\ BatchIdle /\ SeqIdle /\ StreamInit /\ ParIdle /\ ObsIdle /\ RegIdle
    /\ SessIdle /\ HistIdle
StreamingNext ==
    \/ StreamCall
    \/ DefaultProduce
    \/ ProduceSend
    \/ ProduceCancelled
    \/ ProduceEnd
    \/ PredictFails
    \/ SendError
    \/ ConsumerReceive
    \/ ConsumerDrained
    \/ ConsumerAbandon
    \/ Cancel
StreamingSpec == StreamingInit /\ [][StreamingNext]_vars

\* One Invoke of a RunnableParallel.
ParallelInit ==
    AgentIdle /\ BatchIdle /\ SeqIdle /\ StreamIdle /\ ParInit /\ ObsIdle /\ RegIdle
    /\ SessIdle /\ HistIdle
ParallelNext ==
    \/ ParallelCall
    \/ \E k \in Names : BranchInvoke(k)
    \/ \E k \in Names : BranchSend(k)
    \/ Collect
    \/ ParallelReturn
ParallelSpec == ParallelInit /\ [][ParallelNext]_vars

\* The same call under the scheduling of the Go runtime: a goroutine that
\* can take its next step (its Invoke, or its send when the channel has
\* room) eventually takes it.  Both steps change the task's position.
\* The caller's input is the number 1, on which the trimming and the
\* uppercasing unit fail and the doubling unit succeeds, so that every
\* pattern of failing and succeeding branches occurs.
ParallelFairInit == ParallelInit /\ pInput = Num(1)
ParallelFairSpec ==
    /\ ParallelFairInit
    /\ [][ParallelNext]_vars
    /\ \A k \in Names : WF_pTask(BranchInvoke(k)) /\ WF_pTask(BranchSend(k))

\* One call on a callback manager, or one Invoke with observers.
ObserverInit ==
    AgentIdle /\ BatchIdle /\ SeqIdle /\ StreamIdle /\ ParIdle /\ ObsInit /\ RegIdle
    /\ SessIdle /\ HistIdle
ObserverNext == HandleStartCall \/ HandleEndCall \/ HandleErrorCall \/ InvokeCall
ObserverSpec == ObserverInit /\ [][ObserverNext]_vars

\* A registry and the calls made on it.
RegistryInit ==
    AgentIdle /\ BatchIdle /\ SeqIdle /\ StreamIdle /\ ParIdle /\ ObsIdle /\ RegIdle
    /\ SessIdle /\ HistIdle
RegistryNext == RegisterCall \/ GetCall \/ GetAllCall \/ ExecuteToolCall
RegistrySpec == RegistryInit /\ [][RegistryNext]_vars

\* One agent with a budget of at most one iteration, run up to MaxRuns times.
SessionInit ==
    /\ AgentInit
    /\ maxIter \in 0..1
    /\ BatchIdle /\ SeqIdle /\ StreamIdle /\ ParIdle /\ ObsIdle /\ RegIdle
    /\ SessIdle /\ HistIdle
SessionNext == RunStart \/ Reason \/ Act \/ Observe \/ Exhaust \/ RunAgain
SessionSpec == SessionInit /\ [][SessionNext]_vars

\* One chat history: messages added, saved and loaded as time passes.
HistoryInit ==
    AgentIdle /\ BatchIdle /\ SeqIdle /\ StreamIdle /\ ParIdle /\ ObsIdle /\ RegIdle
    /\ SessIdle /\ HistInit
HistoryNext == Tick \/ AddMessageCall \/ SaveCall \/ LoadCall
HistorySpec == HistoryInit /\ [][HistoryNext]_vars

\* One chat history and the messages added to it as time passes.
WindowNext == Tick \/ AddMessageCall
WindowSpec == HistoryInit /\ [][WindowNext]_vars

\* ----------------------------------------------------------------- claims

\* the iteration budget as a count
Budget == IF maxIter > 0 THEN maxIter ELSE 0

Terminal == {"done", "failed", "exhausted"}

IsPrefixOf(a, b) == Len(a) <= Len(b) /\ SubSeq(b, 1, Len(a)) = a

MaxIterationsError == Errorf(<< "max iterations reached without final answer" >>)

\* the leading text of an error message, "" for nil
ErrHead(e) == IF e.isErr THEN e.msg[1] ELSE ""

\* a model outcome that carries a response text
IsText(e) == ~e.out.err.isErr

\* steps Run can still take, at most
Measure ==
    IF pc \in Terminal THEN 0
    ELSE 3 * (Budget - i)
         + (CASE pc = "idle" -> 4 [] pc = "loop" -> 3 [] pc = "acting" -> 2
              [] OTHER -> 1)

\* C1: for an iteration budget k, Run invokes the model at most k times and
\* the tool executor at most k times, every step brings it closer to its
\* return (so it terminates), and it returns an answer or an error.
C1_LoopTermination ==
    /\ [](/\ Len(llmLog) <= Budget
          /\ Len(toolLog) <= Budget
          /\ Measure >= 0
          /\ (pc = "done" => ~runErr.isErr)
          /\ (pc \in {"failed", "exhausted"} => runErr.isErr /\ answer = <<>>))
    /\ [][Measure' < Measure]_vars

\* a run that used its whole budget of MaxIter model invocations
C1_Witness ==
    /\ maxIter = MaxIter
    /\ Len(llmLog) = MaxIter
    /\ Len(toolLog) = MaxIter
    /\ pc = "exhausted"

C3_ToolErrorNotFatal ==
    /\ [][(pc = "acting" /\ ExecuteTool(tools, action, actionInput).err.isErr)
            => /\ pc' = "observing"
               /\ observation' = << "Error: " >>
                                 \o ExecuteTool(tools, action, actionInput).err.msg
               /\ runErr' = NoError]_vars
    /\ [][pc = "observing"
            => /\ pc' = "loop"
               /\ i' = i + 1
               /\ IsPrefixOf(prompt \o << NL, ObservationMarker, SP >> \o observation,
                             prompt')
               /\ runErr' = NoError]_vars
    /\ [](\A t \in 1..Len(toolLog) :
            (toolLog[t].res.err.isErr /\ runErr.isErr)
            => ErrHead(runErr) \in {"LLM invocation failed: ",
                                  "max iterations reached without final answer"})

\* the three executor errors (unknown tool, undecodable arguments, failing
\* tool) in one run, each folded into the prompt of the next iteration
C3_Witness ==
    /\ Len(toolLog) = 3
    /\ ErrHead(toolLog[1].res.err) = "tool not found: "
    /\ ErrHead(toolLog[2].res.err) = "failed to parse arguments: "
    /\ ErrHead(toolLog[3].res.err) = "expression must be a string"
    /\ Len(llmLog) = 3
    /\ Contains(llmLog[3].prompt, "failed to parse arguments: ")
    /\ pc = "loop"
    /\ Contains(prompt, "expression must be a string")

\* C4: a model-invocation error is fatal: the failed invocation is the last
\* one (no retry, no later invocation), Run has returned an error that
\* wraps it, and no tool execution comes after it.
C4_ModelErrorFatal ==
    \A j \in 1..Len(llmLog) :
        llmLog[j].out.err.isErr
        => /\ j = Len(llmLog)
           /\ pc = "failed"
           /\ runErr = Errorf(<< "LLM invocation failed: " >> \o llmLog[j].out.err.msg)
           /\ answer = <<>>
           /\ \A t \in 1..Len(toolLog) : toolLog[t].iter < j - 1

\* the model failed on its second invocation, after a tool call
C4_Witness ==
    /\ Len(llmLog) = 2
    /\ llmLog[2].out.err.isErr
    /\ Len(toolLog) = 1
    /\ maxIter > 2

\* C5: when no response leads to Done, Run returns the max-iterations error
\* after exactly k model invocations: it is returned only then, and once k
\* invocations are used up Run can only return it.
C5_Exhaustion ==
    /\ [](pc = "exhausted"
            => /\ Len(llmLog) = Budget
               /\ runErr = MaxIterationsError
               /\ \A j \in 1..Len(llmLog) :
                     IsText(llmLog[j]) /\ Branch(llmLog[j].out.text) # "final")
    /\ [](pc = "loop" => i = Len(llmLog))
    /\ [][(pc = "loop" /\ Len(llmLog) >= maxIter) => pc' = "exhausted"]_vars
    /\ [][(pc = "loop" /\ Len(llmLog) < maxIter) => Len(llmLog') = Len(llmLog) + 1]_vars

\* Scenario B: three plain reasoning responses, budget 3
C5_Witness ==
    /\ maxIter = 3
    /\ pc = "exhausted"
    /\ Len(llmLog) = 3
    /\ toolLog = <<>>

\* the answer ans is the text after the first final-answer marker of text,
\* without its leading and trailing white space
IsAnswerOf(ans, text) ==
    \E k \in 1..Len(text) :
        /\ text[k] = FinalAnswerMarker
        /\ \A j \in 1..(k - 1) : text[j] # FinalAnswerMarker
        /\ \E a \in (k + 1)..(Len(text) + 1), b \in k..Len(text) :
            /\ ans = SubSeq(text, a, b)
            /\ \A j \in (k + 1)..(a - 1) : IsSpace(text[j])
            /\ \A j \in (b + 1)..Len(text) : IsSpace(text[j])
            /\ (ans # <<>> => ~IsSpace(ans[1]) /\ ~IsSpace(ans[Len(ans)]))
            /\ (ans = <<>> => \A j \in (k + 1)..Len(text) : IsSpace(text[j]))

\* C6: a response with the final-answer marker and no action marker ends
\* Run: it returns the trimmed text after the first marker, with no error,
\* and nothing is invoked or executed afterwards.
C6_DoneTransition ==
    /\ [](\A j \in 1..Len(llmLog) :
            (/\ IsText(llmLog[j])
             /\ Contains(llmLog[j].out.text, FinalAnswerMarker)
             /\ ~Contains(llmLog[j].out.text, ActionMarker))
            => /\ j = Len(llmLog)
               /\ pc = "done"
               /\ IsAnswerOf(answer, llmLog[j].out.text)
               /\ runErr = NoError
               /\ \A t \in 1..Len(toolLog) : toolLog[t].iter < j - 1)
    /\ [][pc = "done" => FALSE]_vars

\* a final answer whose response holds the marker twice, after a tool call
C6_Witness ==
    /\ pc = "done"
    /\ Len(toolLog) = 1
    /\ Len(llmLog) = 2
    /\ answer = << "4", SP, "or", NL, FinalAnswerMarker, SP, "5" >>

\* C7: the prompt of the model invocation that follows an Acting step is
\* the previous prompt, then "\nObservation: r" for the result or rendered
\* error r of the tool call, and ends with the Thought: cue.
C7_ObservationFeedback ==
    \A t \in 1..Len(toolLog) :
        LET j == toolLog[t].iter + 1
            r == IF toolLog[t].res.err.isErr
                 THEN << "Error: " >> \o toolLog[t].res.err.msg
                 ELSE toolLog[t].res.result
        IN  /\ j <= Len(llmLog)
            /\ Len(llmLog) > j
               => /\ IsPrefixOf(llmLog[j].prompt \o << NL, ObservationMarker, SP >> \o r,
                                llmLog[j + 1].prompt)
                  /\ llmLog[j + 1].prompt[Len(llmLog[j + 1].prompt)] = ThoughtMarker

\* Scenario A: the calculator is called, its result is in the second
\* prompt, and the second response's final answer is returned
C7_Witness ==
    /\ pc = "done"
    /\ Len(llmLog) = 2
    /\ Len(toolLog) = 1
    /\ toolLog[1].name = << "calculator" >>
    /\ ~toolLog[1].res.err.isErr
    /\ Contains(llmLog[2].prompt, "Result of '")
    /\ answer = << "4" >>

\* the trimmed text after marker on the first line of text that starts
\* with marker, empty when no line does
FirstMatch(text, marker) ==
    LET lines == Split(text)
        hits == { k \in 1..Len(lines) : HasPrefix(lines[k], marker) }
    IN  IF hits = {} THEN <<>>
        ELSE LET first == CHOOSE k \in hits : \A h \in hits : k <= h
             IN  TrimSpace(Tail(lines[first]))

\* C8: the action name and the argument text handed to the tool executor
\* are those of the first Action: line and of the first Action Input: line
\* of the response; later duplicates are ignored.
C8_FirstMatchWins ==
    \A t \in 1..Len(toolLog) :
        LET text == llmLog[toolLog[t].iter + 1].out.text
        IN  /\ toolLog[t].name = FirstMatch(text, ActionMarker)
            /\ toolLog[t].argsJSON = FirstMatch(text, ActionInputMarker)

\* a response has the action marker but yields an empty action name
EmptyAction(e) ==
    /\ IsText(e)
    /\ Contains(e.out.text, ActionMarker)
    /\ parseAction(e.out.text).action = <<>>

\* C9 (as claimed): a response whose action name is empty after trimming
\* causes no tool execution attempt and is appended to the prompt as a
\* reasoning fragment.
C9_EmptyActionIsNoAction ==
    \A j \in 1..Len(llmLog) :
        EmptyAction(llmLog[j])
        => /\ \A t \in 1..Len(toolLog) : toolLog[t].iter # j - 1
           /\ ~(j = Len(llmLog) /\ pc \in {"acting", "observing"})
           /\ Len(llmLog) > j
              => llmLog[j + 1].prompt
                 = llmLog[j].prompt \o llmLog[j].out.text \o << NL, NL >>

\* C9 (amended): a response whose action name is empty after trimming still
\* takes the Acting path: the tool executor is called with the empty name,
\* which (no tool being registered under it) yields a tool-not-found error
\* without running any tool; that error is the observation folded into the
\* next prompt, and the response itself is not appended to the prompt.
C9_EmptyActionIsExecuted ==
    \A j \in 1..Len(llmLog) :
        (EmptyAction(llmLog[j]) /\ <<>> \notin DOMAIN tools)
        => \/ j = Len(llmLog) /\ pc = "acting" /\ action = <<>>
           \/ \E t \in 1..Len(toolLog) :
                /\ toolLog[t].iter = j - 1
                /\ toolLog[t].name = <<>>
                /\ ~toolLog[t].res.executed
                /\ toolLog[t].res.err = Errorf(<< "tool not found: " >>)
                /\ Len(llmLog) > j
                   => llmLog[j + 1].prompt
                      = llmLog[j].prompt
                        \o << NL, ObservationMarker, SP, "Error: ",
                              "tool not found: ", NL, NL, ThoughtMarker >>

\* both shapes of an empty action (an Action: line without content, the
\* marker in the middle of a line) went through the executor and the loop
\* reached the next model invocation
C9_Witness ==
    /\ Len(llmLog) = 3
    /\ EmptyAction(llmLog[1])
    /\ EmptyAction(llmLog[2])
    /\ \E k \in 1..Len(Split(llmLog[1].out.text)) :
          HasPrefix(Split(llmLog[1].out.text)[k], ActionMarker)
    /\ \A k \in 1..Len(Split(llmLog[2].out.text)) :
          ~HasPrefix(Split(llmLog[2].out.text)[k], ActionMarker)
    /\ Len(toolLog) = 2

C11_NoPartialResults ==
    (bPc = "returned" /\ \E k \in 1..Len(inputs) : errors[k].isErr)
    => /\ batchRet.err.isErr
       /\ batchRet.results = Nil

\* a Batch of three inputs returned after invocations failed with
\* different errors
C11_Witness ==
    /\ bPc = "returned"
    /\ Len(inputs) = 3
    /\ \E k \in 1..3 : errors[k].isErr
    /\ errors[1] # errors[3]
    /\ batchRet.err.isErr

\* a launched invocation has failed and completed
FailureCompleted ==
    \E k \in DOMAIN taskPc : taskPc[k] = "finished" /\ errors[k].isErr

C13_BatchRunsOwnInvoke ==
    (bPc = "returned" /\ unit.kind # "BaseRunnable")
    => IF \E k \in 1..Len(inputs) : Invoke(unit, inputs[k], config).err.isErr
       THEN batchRet.err.isErr
       ELSE /\ ~batchRet.err.isErr
            /\ Len(batchRet.results) = Len(inputs)
            /\ \A k \in 1..Len(inputs) :
                  batchRet.results[k] = Invoke(unit, inputs[k], config).output

\* the three units of the composition exercise, in order
Units3 == << stepA, stepB, stepC >>

\* calls is a run of the units in order from input x: each unit is invoked
\* on the output of the one before it, and the run stops short of the last
\* unit only after a failed call
IsChain(calls, units, x, conf) ==
    /\ Len(calls) <= Len(units)
    /\ \A j \in 1..Len(calls) :
          /\ calls[j].unit = units[j]
          /\ calls[j].input = IF j = 1 THEN x
                              ELSE Invoke(units[j - 1], calls[j - 1].input, conf).output
          /\ j < Len(calls) => ~Invoke(units[j], calls[j].input, conf).err.isErr
    /\ Len(calls) < Len(units)
       => /\ Len(calls) >= 1
          /\ Invoke(units[Len(calls)], calls[Len(calls)].input, conf).err.isErr

\* what the last call of a run returned (the input itself for no call)
ChainResult(calls, units, x, conf) ==
    IF calls = <<>> THEN [output |-> x, err |-> NoError]
    ELSE LET last == Invoke(units[Len(calls)], calls[Len(calls)].input, conf)
         IN  IF last.err.isErr THEN [output |-> Nil, err |-> last.err] ELSE last

\* C14: for units a and b that override Invoke, a.Pipe(b).Invoke(x) returns
\* b.Invoke(a.Invoke(x)) when both succeed; when a.Invoke(x) fails the
\* composite returns that error and b is not invoked.
C14_PipeComposition ==
    (/\ seqRet["pipe"].done
     /\ stepA.kind # "BaseRunnable"
     /\ stepB.kind # "BaseRunnable")
    => LET ra == Invoke(stepA, seqInput, seqConfig)
           rb == Invoke(stepB, ra.output, seqConfig)
       IN  IF ra.err.isErr
           THEN /\ seqRet["pipe"].ret.err = ra.err
                /\ \A j \in 1..Len(seqRet["pipe"].calls) :
                      seqRet["pipe"].calls[j].unit # stepB
           ELSE ~rb.err.isErr => seqRet["pipe"].ret = rb

\* C15: piping c onto the sequence [a, b] and nesting [b, c] behind a both
\* invoke a, then b, then c, each on the output of the one before, up to
\* the first failure, and return the output of c or that first error; the
\* two composites make the same calls and return the same.
C15_PipeAssociative ==
    /\ \A c \in {"flat", "nested"} :
          seqRet[c].done
          => /\ IsChain(seqRet[c].calls, Units3, seqInput, seqConfig)
             /\ seqRet[c].ret
                = ChainResult(seqRet[c].calls, Units3, seqInput, seqConfig)
    /\ (seqRet["flat"].done /\ seqRet["nested"].done)
       => /\ seqRet["flat"].ret = seqRet["nested"].ret
          /\ seqRet["flat"].calls = seqRet["nested"].calls

\* Trim, Uppercase and Prefix composed both ways gave ">> A" for " a "
C15_Witness ==
    /\ seqRet["flat"].done
    /\ seqRet["nested"].done
    /\ Units3 = << NewTrimRunnable, NewUppercaseRunnable,
                   NewPrefixRunnable(<< ">> " >>) >>
    /\ seqInput = Str(<< SP, "a", SP >>)
    /\ seqRet["flat"].ret = [output |-> Str(<< ">> ", "A" >>), err |-> NoError]
    /\ Len(seqRet["nested"].calls) = 3

\* C18: Stream on a sequence of n >= 1 steps invokes the first n - 1 steps
\* in order, each on the output of the one before, before it returns, and
\* does not invoke the last; when they all succeed only the last step is
\* streamed, on the output of step n - 1 (on the caller's input for n = 1);
\* when one fails Stream returns that error with a closed, empty channel
\* and the last step is not started.
C18_StreamOnlyFinalStage ==
    LET run == seqRet["stream"]
        early == SubSeq(Units3, 1, run.n - 1)
        upto == ChainResult(run.calls, early, seqInput, seqConfig)
    IN  (run.done /\ run.n >= 1)
        => /\ ~run.panicked
           /\ IsChain(run.calls, early, seqInput, seqConfig)
           /\ IF upto.err.isErr
              THEN /\ run.ret.err = upto.err
                   /\ run.chan = "closed"
                   /\ run.streamed = <<>>
              ELSE /\ run.ret.err = NoError
                   /\ run.chan = "open"
                   /\ run.streamed = << [unit |-> Embedded(Units3[run.n]),
                                         input |-> upto.output] >>

\* Stream on [Trim, Uppercase, Prefix] with " a ": the first two steps were
\* invoked and the last is being streamed on "A"
C18_Witness ==
    /\ seqRet["stream"].done
    /\ seqRet["stream"].n = 3
    /\ Units3 = << NewTrimRunnable, NewUppercaseRunnable,
                   NewPrefixRunnable(<< ">> " >>) >>
    /\ seqInput = Str(<< SP, "a", SP >>)
    /\ Len(seqRet["stream"].calls) = 2
    /\ seqRet["stream"].streamed
       = << [unit |-> NewBaseRunnable("Prefix"), input |-> Str(<< "A" >>)] >>

\* the producer goroutine is blocked on a send that nothing can complete:
\* the channel is full, the consumer has stopped reading, and the send is
\* either the plain send of the error or a select whose other case waits
\* on a context that is never done
ProducerStuck ==
    /\ sConsumer = "abandoned"
    /\ sProducer # <<>>
    /\ Len(sOut) = Cap(sProducer[1].unit)
    /\ \/ sPc = "sendErr"
       \/ sPc = "produce" /\ sPending # <<>> /\ sCtx = "background"

\* C16: the default Stream performs exactly one Invoke of the unit; when
\* that unit's Invoke succeeds on the input, a consumer that reads to the
\* end receives exactly one item, the output of the unit's Invoke, and the
\* channel is closed.
C16_DefaultStreamOneItem ==
    (/\ sUnit.kind \in {"BaseRunnable", "DoubleRunnable"}
     /\ sConsumer = "drained")
    => /\ sClosed
       /\ Len(sCalls) = 1
       /\ ~Invoke(sUnit, sInput, sConfig).err.isErr
          => sDelivered = << Invoke(sUnit, sInput, sConfig).output >>

\* C17: no streaming producer is ever left blocked for good on a send: once
\* the consumer has stopped reading, the producer goroutine can still reach
\* its end and close the channel.
C17_NeverBlockedForever == ~ProducerStuck

\* the branch of name k succeeds on the caller's input
BranchSucceeds(k) == ~Invoke(pRunnables[k], pInput, pConfig).err.isErr

\* C19: whatever the interleaving of the branch goroutines, no unit is
\* invoked more than once or on anything but the caller's input, and when
\* every branch succeeds Invoke returns, after each unit was invoked exactly
\* once, a map with exactly the names of the mapping, each name holding
\* the output of its own unit.
C19_ParallelResult ==
    /\ \A c, d \in 1..Len(pCalls) :
          /\ pCalls[c].input = pInput
          /\ pCalls[c].key = pCalls[d].key => c = d
    /\ (pPc = "returned" /\ \A k \in DOMAIN pRunnables : BranchSucceeds(k))
       => /\ ~pRet.err.isErr
          /\ DOMAIN pRet.output = DOMAIN pRunnables
          /\ \A k \in DOMAIN pRunnables :
                /\ pRet.output[k] = Invoke(pRunnables[k], pInput, pConfig).output
                /\ \E c \in 1..Len(pCalls) : pCalls[c].key = k

\* three succeeding branches, invoked in another order than that of their
\* names, with different units and different outputs
C19_Witness ==
    /\ pPc = "returned"
    /\ ~pRet.err.isErr
    /\ Cardinality(DOMAIN pRunnables) = 3
    /\ \E j, k \in DOMAIN pRunnables :
          /\ pRet.output[j] = Str(<< "a" >>)
          /\ pRet.output[k] = Str(<< SP, "A", SP >>)
    /\ pCalls[1].key = BranchNames[3]
    /\ pCalls[3].key = BranchNames[1]

\* C20: when Invoke receives the result of a failed branch it returns in
\* that very step, with that branch's error and no map, whatever the other
\* branches are doing; an error return never carries a map.
C20_ParallelFailFast ==
    /\ [][(/\ pPc = "collecting"
            /\ pChan # <<>>
            /\ Head(pChan).err.isErr
            /\ pChan' = Tail(pChan))
           => /\ pPc' = "returned"
              /\ pRet' = [output |-> Nil, err |-> Head(pChan).err]]_vars
    /\ [](pPc = "returned" /\ pRet.err.isErr => pRet.output = Nil)

\* Invoke returned the error of one branch after it had stored the result
\* of another, while a third branch had not been invoked yet
C20_Witness ==
    /\ pPc = "returned"
    /\ pRet.err.isErr
    /\ pCount = 1
    /\ \E k \in DOMAIN pTask : pTask[k] = "ready"


\* the observers of the configuration of the call
Registered == oConfig.Callbacks

\* the positions of the history at which the logic of a unit was called
LogicCalls == { j \in 1..Len(oEvents) : oEvents[j].event = "call" }

\* sub occurs in s as a contiguous piece
Within(sub, s) ==
    \E k \in 0..(Len(s) - Len(sub)) : SubSeq(s, k + 1, k + Len(sub)) = sub

\* C21: in BaseRunnable.Invoke the OnStart of every registered observer is
\* called, in list order, before the logic of the unit; after the logic
\* only one kind of event is raised, OnEnd when it succeeded and OnError
\* when it failed, and no OnEnd or OnError is raised before the logic has
\* run.
C21_ObserverOrdering ==
    (oOp = "Invoke" /\ oUnit.kind = "BaseRunnable") =>
        /\ Cardinality(LogicCalls) <= 1
        /\ \A c \in LogicCalls :
              /\ c = Len(Registered) + 1
              /\ \A k \in 1..Len(Registered) :
                    oEvents[k] = Notification(oUnit.name, k, Registered[k].name,
                                              "OnStart", TRUE)
              /\ \A j \in (c + 1)..Len(oEvents) :
                    /\ oEvents[j].event
                         = (IF oEvents[c].ok THEN "OnEnd" ELSE "OnError")
                    /\ oEvents[j].runnable = oUnit.name
              /\ Len(Registered) > 0 => Len(oEvents) > c
        /\ LogicCalls = {} =>
              \A j \in 1..Len(oEvents) : oEvents[j].event = "OnStart"

\* C21 witness: an Invoke of the base unit with three observers has run
\* its logic after three OnStart calls and raised OnError three times
C21_Witness ==
    /\ oOp = "Invoke"
    /\ oUnit.kind = "BaseRunnable"
    /\ Len(Registered) = 3
    /\ LogicCalls = {4}
    /\ Len(oEvents) = 7
    /\ oEvents[7].event = "OnError"

\* whether the observer cb fails on the event of the manager call op
Fails(cb, op) ==
    CASE op = "HandleStart" -> oInput \in cb.failStart
      [] op = "HandleEnd" -> cb.failEnd
      [] op = "HandleError" -> cb.failError
      [] OTHER -> FALSE

\* the observer method a manager call notifies
EventOf(op) ==
    CASE op = "HandleStart" -> "OnStart"
      [] op = "HandleEnd" -> "OnEnd"
      [] OTHER -> "OnError"

\* the error the observer cb returns from that method
ErrorOf(cb, op) ==
    CASE op = "HandleStart" -> Errorf(<< cb.name, ".OnStart rejected ", oInput >>)
      [] op = "HandleEnd" -> Errorf(<< cb.name, ".OnEnd failed" >>)
      [] OTHER -> Errorf(<< cb.name, ".OnError failed" >>)

\* the positions of the observers that fail on the event of the call
Failing == { k \in 1..Len(Registered) : Fails(Registered[k], oOp) }

\* the position of the last observer a notification reaches
LastNotified ==
    IF Failing = {} THEN Len(Registered)
    ELSE CHOOSE k \in Failing : \A j \in Failing : k <= j

\* C22: a notification of start, end or error calls the observers in list
\* order up to and including the first that returns an error; no observer
\* after that one is called, and its error is what the notification
\* returns (nil when no observer fails).
C22_ChainAbort ==
    oOp \in {"HandleStart", "HandleEnd", "HandleError"} =>
        /\ Len(oEvents) = LastNotified
        /\ \A k \in 1..LastNotified :
              oEvents[k] = Notification(oUnit.name, k, Registered[k].name,
                                        EventOf(oOp), k \notin Failing)
        /\ oRet.err = (IF Failing = {} THEN NoError
                       ELSE ErrorOf(Registered[LastNotified], oOp))

\* C22 witness: the second of three observers failed on OnEnd and the
\* third, which would have failed on it too, was not called
C22_Witness ==
    /\ oOp = "HandleEnd"
    /\ Len(Registered) = 3
    /\ Failing = {2, 3}
    /\ Len(oEvents) = 2
    /\ oRet.err.isErr

\* C23: when the logic of the unit fails and an OnError observer fails
\* too, the error Invoke returns carries the text of the observer's error
\* and the text of the original error.
C23_BothErrors ==
    \A c, j \in 1..Len(oEvents) :
        (/\ oOp = "Invoke"
         /\ oEvents[c].event = "call" /\ ~oEvents[c].ok
         /\ oEvents[j].event = "OnError" /\ ~oEvents[j].ok) =>
            /\ oRet.err.isErr
            /\ Within(<< oEvents[j].observer, ".OnError failed" >>, oRet.err.msg)
            /\ Within(<< oEvents[c].runnable, " must implement call() method" >>,
                      oRet.err.msg)

\* C23 witness: an Invoke whose logic failed and whose second observer
\* failed on OnError has returned
C23_Witness ==
    /\ oOp = "Invoke"
    /\ \E c \in LogicCalls : ~oEvents[c].ok
    /\ \E j \in 1..Len(oEvents) :
          oEvents[j] = Notification(oUnit.name, 2, "Audit", "OnError", FALSE)
    /\ oRet.err.isErr

\* C25: an Invoke of any unit, composite or overriding, with observers in
\* its configuration raises OnStart for that unit first and, when every
\* OnStart is accepted, OnEnd or OnError for that unit afterwards.
C25_NotifiedAroundInvoke ==
    (oOp = "Invoke" /\ Len(Registered) > 0) =>
        /\ Len(oEvents) > 0
        /\ oEvents[1] = Notification(oUnit.name, 1, Registered[1].name, "OnStart",
                                     oInput \notin Registered[1].failStart)
        /\ (\A k \in 1..Len(Registered) : oInput \notin Registered[k].failStart)
              => \E j \in 1..Len(oEvents) :
                    /\ oEvents[j].runnable = oUnit.name
                    /\ oEvents[j].event \in {"OnEnd", "OnError"}

\* the positions at which a tool of that name was handed to Register
RegisteredAs(name) == { k \in 1..Len(registered) : registered[k].name = name }

\* the tool most recently registered under a name that was registered
LastRegistered(name) ==
    registered[CHOOSE k \in RegisteredAs(name) : \A j \in RegisteredAs(name) : j <= k]

\* the names under which a tool was registered
RegisteredNames == { registered[k].name : k \in 1..Len(registered) }

\* C26: the registry holds one entry per distinct registered name; Get
\* finds exactly the registered names and returns the tool registered
\* last under the name; Register takes effect at once on any name; Get,
\* GetAll and ExecuteTool leave the registry as it was.
C26_LastWriteWins ==
    /\ [](/\ DOMAIN registry = RegisteredNames
          /\ \A n \in RegNames :
                /\ Get(registry, n).ok <=> (n \in RegisteredNames)
                /\ n \in RegisteredNames => Get(registry, n).tool = LastRegistered(n)
          /\ regOp = "Get" =>
                /\ regRet.ok <=> (regArg.name \in RegisteredNames)
                /\ regRet.ok => regRet.tool = LastRegistered(regArg.name)
          /\ regOp = "GetAll" =>
                /\ Len(regRet.all) = Cardinality(RegisteredNames)
                /\ \A n \in RegisteredNames :
                      \E k \in 1..Len(regRet.all) : regRet.all[k] = LastRegistered(n))
    /\ [][/\ regOp' \in {"Get", "GetAll", "ExecuteTool"} => registry' = registry
          /\ registered' # registered =>
                /\ regOp' = "Register"
                /\ Get(registry', regArg'.name)
                     = [tool |-> registered'[Len(registered')], ok |-> TRUE]]_vars

\* C26 witness: a Get of "calculator" after two different tools were
\* registered under that name returned the second
C26_Witness ==
    /\ regOp = "Get"
    /\ regArg.name = << "calculator" >>
    /\ registered = << NewCalculatorTool,
                       NewBaseTool(<< "calculator" >>, << "an older calculator" >>) >>
    /\ regRet.ok
    /\ regRet.tool = registered[2]

\* C27: ExecuteTool with a name that is not registered returns the
\* tool-not-found error for that name and calls no tool function, whatever
\* the payload.
C27_LookupBeforeDecoding ==
    (regOp = "ExecuteTool" /\ regArg.name \notin RegisteredNames) =>
        regRet = [result |-> <<>>, executed |-> FALSE,
                  err |-> Errorf(<< "tool not found: " >> \o regArg.name)]

\* C27 witness: ExecuteTool on an unregistered name with a payload that
\* does not decode returned while other tools were registered
C27_Witness ==
    /\ regOp = "ExecuteTool"
    /\ regArg = [name |-> << "search" >>, payload |-> << "not json" >>]
    /\ Len(registered) > 0
    /\ regRet.err.isErr

\* the errors the tool functions of the model return
ToolErrors ==
    { Execute(t, JSONObjects[d]).err : t \in RegTools, d \in DOMAIN JSONObjects }

\* C28: ExecuteTool on a registered name with a non-empty payload that does
\* not decode returns an invalid-arguments error, whose text differs from
\* the tool-not-found error and from every tool error, and does not call
\* the tool; with an empty or decodable payload it calls the tool function
\* (once, on the decoded arguments, or on none) and returns what it
\* returned.
C28_InvalidArguments ==
    (regOp = "ExecuteTool" /\ regArg.name \in RegisteredNames) =>
        LET tool == LastRegistered(regArg.name)
            dec == JSONUnmarshal(regArg.payload)
        IN  IF regArg.payload # <<>> /\ dec.err.isErr
            THEN /\ ~regRet.executed
                 /\ regRet.result = <<>>
                 /\ ErrHead(regRet.err) = "failed to parse arguments: "
                 /\ ErrHead(regRet.err) # "tool not found: "
                 /\ \A e \in ToolErrors : ErrHead(regRet.err) # ErrHead(e)
            ELSE /\ regRet.executed
                 /\ [result |-> regRet.result, err |-> regRet.err]
                      = Execute(tool, IF regArg.payload = <<>> THEN EmptyArgs
                                      ELSE dec.args)

\* C28 witness: ExecuteTool on the registered calculator with two JSON
\* documents as payload returned without calling the tool
C28_Witness ==
    /\ regOp = "ExecuteTool"
    /\ regArg = [name |-> << "calculator" >>, payload |-> << "{}", SP, "{}" >>]
    /\ regArg.name \in RegisteredNames
    /\ ~regRet.executed
    /\ regRet.err.isErr

\* the entries appended to the scratchpad since the most recent Run began
EntriesOfLastRun == SubSeq(scratchpad, mark + 1, Len(scratchpad))

\* C29: after any sequence of Run calls on one agent GetScratchpad returns
\* only the model outputs and observations of the most recent Run, in
\* order.
C29_ScratchpadOfLastRun == GetScratchpad = EntriesOfLastRun

\* C30: an agent constructed with maxIter = 0 runs on a default positive
\* budget: its Run does not end with the max-iterations error before the
\* model was invoked.
C30_DefaultBudget ==
    (maxIter = 0 /\ pc = "exhausted") => Len(llmLog) > 0

\* C31: serializing the messages of a history, loading the result and
\* serializing again gives the same serialized form, for every kind of
\* message.
C31_RoundTrip == hOp = "Load" => Save(history) = file

IsSystem(m) == m.type = "system"

NotSystem(m) == m.type # "system"

\* the last n elements of a sequence
LastN(q, n) == SubSeq(q, Len(q) - n + 1, Len(q))

\* the most recently added non-system messages, at most maxSize of them
Window ==
    LET others == SelectSeq(added, NotSystem)
    IN  LastN(others, IF Len(others) < history.maxSize THEN Len(others)
                      ELSE history.maxSize)

\* the system message added last, as a list of at most one message
LatestSystem ==
    LET systems == SelectSeq(added, IsSystem)
    IN  IF systems = <<>> THEN <<>> ELSE << systems[Len(systems)] >>

Answered == { k \in 1..Len(llmLog) : ~LLMFailed(llmLog[k].out) }

\* C32: the prompt of every model invocation contains each response the
\* model gave earlier in the session, those that requested an action
\* included, and has the prompt of every earlier invocation as a prefix.
C32_PromptCarriesTranscript ==
    \A j, k \in 1..Len(llmLog) :
        (j < k /\ j \in Answered) =>
            /\ Within(llmLog[j].out.text, llmLog[k].prompt)
            /\ IsPrefixOf(llmLog[j].prompt, llmLog[k].prompt)

\* the response of invocation k has neither marker
IsFragment(k) ==
    /\ k \in Answered
    /\ ~Contains(llmLog[k].out.text, ActionMarker)
    /\ ~Contains(llmLog[k].out.text, FinalAnswerMarker)

\* C33: a response with neither the action marker nor the final-answer
\* marker executes no tool, is appended to the prompt as it is (followed by
\* a blank line), and uses up one iteration: the next invocation, if
\* there is one, is given the previous prompt followed by the response.
C33_IntermediateFragment ==
    /\ [](\A k \in 1..Len(llmLog) :
            IsFragment(k) =>
               /\ \A t \in 1..Len(toolLog) : toolLog[t].iter # k - 1
               /\ k < Len(llmLog) =>
                     llmLog[k + 1].prompt
                       = llmLog[k].prompt \o llmLog[k].out.text \o << NL, NL >>)
    /\ [][(Len(llmLog') = Len(llmLog) + 1 /\ IsFragment(Len(llmLog))')
            => /\ toolLog' = toolLog
               /\ prompt' = prompt \o responseStr' \o << NL, NL >>
               /\ i' = i + 1
               /\ pc' = "loop"]_vars

\* C33 witness: the model was invoked again after a response without
\* markers, with no tool executed in the session
C33_Witness ==
    /\ Len(llmLog) = 2
    /\ IsFragment(1)
    /\ toolLog = <<>>
    /\ i = 1
    /\ llmLog[2].prompt # llmLog[1].prompt

\* C34: a sequence of the first n of the three units invokes them one after
\* another in list order, the first on the caller's input and each later
\* one on the output of the step before, under the caller's configuration;
\* it stops at the first failing step and returns its error and no output,
\* or returns the output of the last step; with no step it returns its
\* input.
C34_SequenceOrder ==
    LET run == seqRet["sequence"]
        steps == SubSeq(Units3, 1, run.n)
    IN  run.done =>
           /\ IsChain(run.calls, steps, seqInput, seqConfig)
           /\ run.ret = ChainResult(run.calls, steps, seqInput, seqConfig)
           /\ run.ret.err.isErr => run.ret.output = Nil
           /\ run.n = 0 => /\ run.calls = <<>>
                           /\ run.ret = [output |-> seqInput, err |-> NoError]

\* C34 witness: of the steps [Trim, Double, Prefix] on " a " the second
\* failed; the sequence returned its error and the third was not invoked
C34_Witness ==
    /\ seqRet["sequence"].done
    /\ seqRet["sequence"].n = 3
    /\ Units3 = << NewTrimRunnable, NewDoubleRunnable,
                   NewPrefixRunnable(<< ">> " >>) >>
    /\ seqRet["sequence"].calls
         = << [unit |-> NewTrimRunnable, input |-> seqInput],
              [unit |-> NewDoubleRunnable, input |-> Str(<< "a" >>)] >>
    /\ seqRet["sequence"].ret.err.isErr

\* the indices of the inputs on which the invocation Batch performs fails
FailingInputs ==
    { k \in 1..Len(inputs) : BaseInvoke(UnitName, inputs[k], config).err.isErr }

\* C36: when invocations of one Batch call fail, the error Batch returns is
\* the error of the invocation of the failing input with the lowest index,
\* whatever the order in which the invocations ran and completed.
C36_LowestIndexError ==
    (bPc = "returned" /\ FailingInputs # {})
    => \E k \in FailingInputs :
          /\ \A j \in FailingInputs : k <= j
          /\ batchRet.err = BaseInvoke(UnitName, inputs[k], config).err

\* C36 witness: two invocations failed with different errors, the one of
\* the second input ran first, and Batch returned the error of the first
C36_Witness ==
    /\ bPc = "returned"
    /\ Len(inputs) >= 2
    /\ order[1] = 2
    /\ errors[1].isErr /\ errors[2].isErr
    /\ errors[1] # errors[2]
    /\ batchRet.err = errors[1]

\* Invoke has returned the error of a branch
ReturnedEarly == pPc = "returned" /\ pRet.err.isErr

\* C37: no branch task of the parallel composite is left stuck: the
\* hand-off of a task that has invoked its unit can always be made (the
\* channel has room for it), also after Invoke has returned; and after
\* Invoke returned early on a branch error every branch task, not being
\* cancelled, invokes its unit and hands its result off.
C37_NoStuckBranch ==
    /\ [](\A k \in DOMAIN pTask :
             pTask[k] = "invoked" => ENABLED BranchSend(k))
    /\ [][ReturnedEarly => pTask' # pTask]_vars
    /\ (ReturnedEarly ~> (\A k \in DOMAIN pTask : pTask[k] = "sent"))

\* C37 witness: Invoke returned on the first result it received, the error
\* of the branch that ran first; the other two branches have handed off
\* their results, which nobody receives
C37_Witness ==
    /\ ReturnedEarly
    /\ Cardinality(DOMAIN pTask) = 3
    /\ \A k \in DOMAIN pTask : pTask[k] = "sent"
    /\ Len(pChan) = 2
    /\ pRet.err = pOutcome[pCalls[1].key].err

\* the positions of the observers whose OnStart rejects the input
StartRejecting == { k \in 1..Len(Registered) : oInput \in Registered[k].failStart }

\* C38: when the OnStart of an observer fails, base Invoke returns that
\* observer's error and no output; the logic of the unit is not executed,
\* no OnEnd and no OnError is raised, and no observer after the failing
\* one is notified.
C38_FailingStartPrevents ==
    (oOp = "Invoke" /\ oUnit.kind = "BaseRunnable" /\ StartRejecting # {}) =>
        \E f \in StartRejecting :
            /\ \A k \in StartRejecting : f <= k
            /\ oRet = [output |-> Nil,
                       err |-> Errorf(<< Registered[f].name, ".OnStart rejected ",
                                         oInput >>)]
            /\ LogicCalls = {}
            /\ Len(oEvents) = f
            /\ \A j \in 1..f :
                  oEvents[j] = Notification(oUnit.name, j, Registered[j].name,
                                            "OnStart", j # f)

\* C38 witness: the second of three observers rejected the input of an
\* Invoke of the base unit, which ended after two OnStart calls
C38_Witness ==
    /\ oOp = "Invoke"
    /\ oUnit.kind = "BaseRunnable"
    /\ Len(Registered) = 3
    /\ StartRejecting = {2}
    /\ Len(oEvents) = 2
    /\ oRet.err.isErr

\* the stream at hand is the one of the default Stream
DefaultStreamed == sProducer # <<>> /\ sProducer[1].unit.kind = "BaseRunnable"

\* the Invoke the default Stream performs fails
DefaultInvokeFails ==
    Invoke(sProducer[1].unit, sProducer[1].input, sConfig).err.isErr

\* C39: the default Stream returns a channel and a nil error before its
\* Invoke has run; when that Invoke fails the channel is closed without any
\* item having been sent, so the consumer receives no item and no error.
C39_DefaultStreamHidesFailure ==
    DefaultStreamed =>
        /\ ~sErr.isErr
        /\ sPc = "invoke" => (~sClosed /\ sOut = <<>> /\ sDelivered = <<>>)
        /\ (sPc = "closed" /\ DefaultInvokeFails) =>
              /\ sClosed
              /\ sOut = <<>>
              /\ sDelivered = <<>>
              /\ sCalls[Len(sCalls)] = sProducer[1]

\* C39 witness: the consumer of the default Stream of the doubling unit on
\* the number 1 has read the channel to its end and received nothing,
\* Stream having returned a nil error
C39_Witness ==
    /\ DefaultStreamed
    /\ sUnit = NewDoubleRunnable
    /\ sInput = Num(1)
    /\ sPc = "closed"
    /\ DefaultInvokeFails
    /\ sConsumer = "drained"
    /\ sDelivered = <<>>
    /\ ~sErr.isErr

\* the invocations of input k that Batch has made so far
InvocationsOf(k) == { j \in 1..Len(order) : order[j] = k }

\* the executions of the logic within one Invoke of the base unit on v
Executions(v) ==
    LET ev == BaseInvokeEvents(UnitName, v, config)
    IN  { j \in 1..Len(ev) : ev[j].event = "call" }

\* the configuration of the call with no retry budget and no timeout
NoBudget ==
    IF config = NilConfig THEN NewConfig
    ELSE [config EXCEPT !.MaxRetries = 0, !.Timeout = 0]

\* C40: the retry budget and the timeout of the configuration change
\* nothing: Batch invokes each input exactly once, an Invoke executes the
\* logic of the unit once (not at all when an OnStart observer rejected the
\* input, never twice), its failure is what the invocation yields, and the
\* outcome is the one of the same call without budget or timeout.
C40_NoRetry ==
    /\ \A k \in DOMAIN taskPc :
          /\ Cardinality(InvocationsOf(k)) = (IF taskPc[k] = "ready" THEN 0 ELSE 1)
          /\ Cardinality(Executions(inputs[k]))
               = (IF HandleStart(NoBudget.Callbacks, inputs[k]).isErr THEN 0 ELSE 1)
          /\ taskPc[k] # "ready" =>
                /\ errors[k] = BaseInvoke(UnitName, inputs[k], NoBudget).err
                /\ results[k] = BaseInvoke(UnitName, inputs[k], NoBudget).output
                /\ errors[k].isErr
    /\ bPc = "returned" =>
          /\ Len(order) = Len(inputs)
          /\ Len(inputs) > 0 => batchRet.err.isErr

\* C40 witness: Batch has returned an error after three invocations, one
\* per input, under a configuration with a retry budget of 5 and a timeout
C40_Witness ==
    /\ bPc = "returned"
    /\ config.MaxRetries = 5
    /\ config.Timeout = 30
    /\ Len(inputs) = 3
    /\ Len(order) = 3
    /\ \A k \in 1..3 : errors[k].isErr /\ Cardinality(InvocationsOf(k)) = 1
    /\ batchRet.err.isErr
====
